---- MODULE Spec2Model ----
(***************************************************************************)
(* Exam-simulation backend (backend/server.py): the exam-session handlers  *)
(* start_exam, get_exam_question, submit_answer, submit_exam and the       *)
(* question store they read, as a state machine over the document store.   *)
(*                                                                         *)
(* Modelling conventions                                                   *)
(*  - every handler is one atomic action (requests run one at a time);     *)
(*  - uuid4 ids of sessions and results are the 1-based insertion index;   *)
(*  - marks are integers in hundredths of a mark (1.0 -> 100, 0.33 -> 33), *)
(*    arithmetic on them is exact;                                         *)
(*  - the clock counts half minutes;                                       *)
(*  - a Python value of type Union[str, float, List[str]] or None is a     *)
(*    record [kind, s, n] (see PyNone, PyStr, PyNum, PyList);              *)
(*  - the store hands start_time back in the ISO text form line 721        *)
(*    expects, so the time computation of submit_exam succeeds.            *)
(***************************************************************************)
EXTENDS Integers, Sequences, FiniteSets, TLC

VARIABLES questions, exam_configs, exam_sessions, exam_results, now, response,
          inflight

vars == <<questions, exam_configs, exam_sessions, exam_results, now, response,
          inflight>>

-----------------------------------------------------------------------------
(* Bounds *)

MaxSessions == 2
MaxTime == 1
MaxAnswered == 1
MaxOneAnswered == 2
MaxCheckAnswered == 1
MaxCreated == 1
MaxExamsCreated == 1
MaxStartSessions == 2
MaxInflight == 2
MaxStepSessions == 2
MaxStepResults == 2

-----------------------------------------------------------------------------
(* Enums *)

MCQ == "MCQ"
MSQ == "MSQ"
NAT == "NAT"
QuestionType == {MCQ, MSQ, NAT}

STUDENT == "student"
ADMIN == "admin"

NOT_VISITED == "not_visited"
NOT_ANSWERED == "not_answered"
ANSWERED == "answered"
MARKED == "marked"
MARKED_ANSWERED == "marked_answered"
QuestionStatus == {NOT_VISITED, NOT_ANSWERED, ANSWERED, MARKED, MARKED_ANSWERED}

-----------------------------------------------------------------------------
(* Python values: None, str, float, List[str] *)

PyNone == [kind |-> "none", s |-> <<>>, n |-> 0]
PyStr(x) == [kind |-> "str", s |-> <<x>>, n |-> 0]
PyNum(v) == [kind |-> "num", s |-> <<>>, n |-> v]
PyList(xs) == [kind |-> "list", s |-> xs, n |-> 0]

Range(f) == {f[i] : i \in DOMAIN f}

\* float(x) for a str x: the decimal literals of the model's alphabet parse
\* (surrounding blanks and a trailing ".0" are accepted), every other text
\* raises ValueError.
NumericText == {"4", "4.0", " 4 ", "3", "0", "-1"}
float_of_text(x) ==
    CASE x \in {"4", "4.0", " 4 "} -> 4
      [] x = "3" -> 3
      [] x = "0" -> 0
      [] x = "-1" -> -1

\* float(v): [ok |-> FALSE] stands for the raised TypeError / ValueError.
py_float(v) ==
    CASE v.kind = "num" -> [ok |-> TRUE, v |-> v.n]
      [] v.kind = "str" ->
            IF v.s[1] \in NumericText
            THEN [ok |-> TRUE, v |-> float_of_text(v.s[1])]
            ELSE [ok |-> FALSE, v |-> 0]
      [] OTHER -> [ok |-> FALSE, v |-> 0]

\* Elements of a Python set built from an answer: strings and floats never
\* compare equal, so each element carries its type.
StrElem(x) == [t |-> "str", s |-> x, n |-> 0]
NumElem(v) == [t |-> "num", s |-> "", n |-> v]

\* user_answer in correct_options, correct_options a list of option ids
py_in_ids(v, ids) == v.kind = "str" /\ v.s[1] \in Range(ids)

\* set(user_answer if isinstance(user_answer, list) else [user_answer])
py_set_of_answer(v) ==
    CASE v.kind = "list" -> {StrElem(x) : x \in Range(v.s)}
      [] v.kind = "str" -> {StrElem(v.s[1])}
      [] v.kind = "num" -> {NumElem(v.n)}
      [] OTHER -> {[t |-> "none", s |-> "", n |-> 0]}

-----------------------------------------------------------------------------
(* Records *)

Users == {"u1", "u2", "adm"}
UserRole == [u \in Users |-> IF u = "adm" THEN ADMIN ELSE STUDENT]

QuestionOption(id, is_correct) == [id |-> id, text |-> id, is_correct |-> is_correct]

Question(id, type, subject, marks, negative_marks, options, correct_answer) ==
    [id |-> id, question_type |-> type, subject |-> subject,
     marks |-> marks, negative_marks |-> negative_marks,
     options |-> options, correct_answer |-> correct_answer,
     created_by |-> "adm", shared_with |-> {}, is_public |-> FALSE]

ExamConfig(id, total_questions, subjects) ==
    [id |-> id, total_questions |-> total_questions, subjects |-> subjects,
     randomize_questions |-> TRUE, created_by |-> "adm"]

NoTime == -1

ExamSession(id, user_id, exam_config_id, qids, question_status, start_time) ==
    [id |-> id, user_id |-> user_id, exam_config_id |-> exam_config_id,
     questions |-> qids, answers |-> <<>>, question_status |-> question_status,
     start_time |-> start_time, end_time |-> NoTime, submitted |-> FALSE,
     current_question |-> 0]

-----------------------------------------------------------------------------
(* Store contents at start-up and request inputs *)

\* The question bank: one question of each type, default marks 1.0 / 0.33
\* on the first.
QuestionBank ==
    [q1 |-> Question("q1", MCQ, "Math", 100, 33,
                     <<QuestionOption("A", TRUE), QuestionOption("B", FALSE)>>,
                     PyNone),
     q2 |-> Question("q2", NAT, "Math", 200, 66, <<>>, PyStr("4.0")),
     q3 |-> Question("q3", MSQ, "Phys", 100, 0,
                     <<QuestionOption("A", TRUE), QuestionOption("B", TRUE),
                       QuestionOption("C", FALSE)>>,
                     PyNone)]

ExamCatalog ==
    [e1 |-> ExamConfig("e1", 2, {"Math"}),
     e2 |-> ExamConfig("e2", 1, {"Math", "Phys"}),
     e3 |-> ExamConfig("e3", 1, {"Phys"})]


-----------------------------------------------------------------------------
(* Helpers *)

Min(S) == CHOOSE x \in S : \A y \in S : x <= y

RECURSIVE GCD(_, _)
GCD(a, b) == IF b = 0 THEN a ELSE GCD(b, a % b)

\* An exact fraction in lowest terms (stands for the float num / den).
Ratio(num, den) == [num |-> num \div GCD(num, den), den |-> den \div GCD(num, den)]

Injective(f) == \A i, j \in DOMAIN f : f[i] = f[j] => i = j

\* a sample one member short
random_sample_short(population, k) ==
    {f \in [1..(k - 1) -> population] : Injective(f)}

\* a sample drawn with replacement
random_sample_with_replacement(population, k) == [1..k -> population]

\* random.sample(population, k): every ordered selection of k distinct members
random_sample(population, k) == {f \in [1..k -> population] : Injective(f)}

\* d[k] = v on a dict
DictSet(d, k, v) == [x \in DOMAIN d \cup {k} |-> IF x = k THEN v ELSE d[x]]

\* d.get(k)
DictGet(d, k) == IF k \in DOMAIN d THEN d[k] ELSE PyNone

\* What the last request was and what it returned.
HTTPException(op, code) ==
    [op |-> op, args |-> <<>>, code |-> code, body |-> [detail |-> code]]
Ok(op, args, body) == [op |-> op, args |-> args, code |-> 200, body |-> body]

\* the filter without the owner
find_session_any_user(session_id, user) ==
    LET hits == {i \in DOMAIN exam_sessions : exam_sessions[i].id = session_id}
    IN IF hits = {} THEN 0 ELSE Min(hits)

\* find_one({"id": session_id, "user_id": user}) on exam_sessions: 0 if none
find_session(session_id, user) ==
    LET hits == {i \in DOMAIN exam_sessions :
                    /\ exam_sessions[i].id = session_id
                    /\ exam_sessions[i].user_id = user}
    IN IF hits = {} THEN 0 ELSE Min(hits)

\* find_one({"exam_session_id": session_id}) on exam_results: 0 if none
find_result(session_id) ==
    LET hits == {i \in DOMAIN exam_results :
                    exam_results[i].exam_session_id = session_id}
    IN IF hits = {} THEN 0 ELSE Min(hits)

-----------------------------------------------------------------------------
(* start_exam *)

\* the filter with the submitted flag inverted
find_submitted_session(user, exam_config_id) ==
    LET hits == {i \in DOMAIN exam_sessions :
                    /\ exam_sessions[i].user_id = user
                    /\ exam_sessions[i].exam_config_id = exam_config_id
                    /\ exam_sessions[i].submitted}
    IN IF hits = {} THEN 0 ELSE Min(hits)

\* find_one({"user_id", "exam_config_id", "submitted": False}): 0 if none
find_active_session(user, exam_config_id) ==
    LET hits == {i \in DOMAIN exam_sessions :
                    /\ exam_sessions[i].user_id = user
                    /\ exam_sessions[i].exam_config_id = exam_config_id
                    /\ ~exam_sessions[i].submitted}
    IN IF hits = {} THEN 0 ELSE Min(hits)

\* the query without the subject filter
questions_of_any_subject(subjects) == DOMAIN questions

\* find({"subject": {"$in": subjects}}): the ids of the matching questions
questions_of_subjects(subjects) ==
    {q \in DOMAIN questions : questions[q].subject \in subjects}

\* the status map without the opening of the first question
initial_question_status_unopened(question_ids) ==
    [q \in Range(question_ids) |-> NOT_VISITED]

\* {qid: NOT_VISITED for qid in question_ids}, then the first NOT_ANSWERED
initial_question_status(question_ids) ==
    [q \in Range(question_ids) |->
        IF q = question_ids[1] THEN NOT_ANSWERED ELSE NOT_VISITED]

start_exam(user, exam_config_id) ==
    LET args == [user |-> user, exam_config_id |-> exam_config_id]
        existing == find_active_session(user, exam_config_id)
    IN
    /\ UNCHANGED <<questions, exam_configs, exam_results, now, inflight>>
    /\ IF exam_config_id \notin DOMAIN exam_configs
       THEN /\ response' = HTTPException("start_exam", 404)
            /\ UNCHANGED exam_sessions
       ELSE IF existing # 0
       THEN /\ response' = Ok("start_exam", args, exam_sessions[existing])
            /\ UNCHANGED exam_sessions
       ELSE LET exam_config == exam_configs[exam_config_id]
                all_questions == questions_of_subjects(exam_config.subjects)
            IN IF Cardinality(all_questions) < exam_config.total_questions
               THEN /\ response' = HTTPException("start_exam", 400)
                    /\ UNCHANGED exam_sessions
               ELSE IF exam_config.total_questions <= 0
               THEN \* random.sample raises on k < 0, question_ids[0] on k = 0
                    /\ response' = HTTPException("start_exam", 500)
                    /\ UNCHANGED exam_sessions
               ELSE \E question_ids \in
                            random_sample(all_questions, exam_config.total_questions) :
                         LET session == ExamSession(Len(exam_sessions) + 1, user,
                                            exam_config_id, question_ids,
                                            initial_question_status(question_ids),
                                            now)
                         IN /\ exam_sessions' = Append(exam_sessions, session)
                            /\ response' = Ok("start_exam", args, session)

-----------------------------------------------------------------------------
(* get_exam_question *)

\* seq[i] of Python as a 1-based position: 0 stands for the IndexError
py_index(len, i) ==
    IF i >= 0 THEN (IF i < len THEN i + 1 ELSE 0)
    ELSE (IF len + i >= 0 THEN len + i + 1 ELSE 0)

\* the copy that drops correct_answer only
sanitize_keeps_flags(question) == [question EXCEPT !.correct_answer = PyNone]

\* lines 605-617: drop correct_answer and every option's is_correct, then
\* Question(**question_copy) fills the dropped fields with their defaults
sanitize(question) ==
    [question EXCEPT
        !.correct_answer = PyNone,
        !.options = [i \in DOMAIN question.options |->
                        [question.options[i] EXCEPT !.is_correct = FALSE]]]

\* the returned payload, lines 616-621
question_payload(question, session, question_index) ==
    [question |-> sanitize(question),
     question_number |-> question_index + 1,
     total_questions |-> Len(session.questions),
     current_answer |-> DictGet(session.answers, question.id)]

\* the response of get_exam_question on a store db_questions; the session
\* (found, not submitted) and the index (below the length) are given
get_exam_question_response(db_questions, session, args) ==
    LET pos == py_index(Len(session.questions), args.question_index)
    IN IF pos = 0
       THEN HTTPException("get_exam_question", 500)
       ELSE IF session.questions[pos] \notin DOMAIN db_questions
       THEN HTTPException("get_exam_question", 404)
       ELSE Ok("get_exam_question", args,
               question_payload(db_questions[session.questions[pos]],
                                session, args.question_index))

get_exam_question(user, session_id, question_index) ==
    LET args == [user |-> user, session_id |-> session_id,
                 question_index |-> question_index]
        i == find_session(session_id, user)
    IN
    /\ UNCHANGED <<questions, exam_configs, exam_results, now, inflight>>
    /\ IF i = 0 \/ (i # 0 /\ exam_sessions[i].submitted)
       THEN /\ response' = HTTPException("get_exam_question", 404)
            /\ UNCHANGED exam_sessions
       ELSE IF question_index >= Len(exam_sessions[i].questions)
       THEN /\ response' = HTTPException("get_exam_question", 400)
            /\ UNCHANGED exam_sessions
       ELSE LET session == exam_sessions[i]
                r == get_exam_question_response(questions, session, args)
                question_id == session.questions[
                                  py_index(Len(session.questions), question_index)]
            IN /\ response' = r
               /\ IF r.code # 200
                  THEN UNCHANGED exam_sessions
                  ELSE exam_sessions' =
                         [exam_sessions EXCEPT
                            ![i].current_question = question_index,
                            ![i].question_status =
                                DictSet(@, question_id, NOT_ANSWERED)]

-----------------------------------------------------------------------------
(* submit_answer *)

\* the handler that refuses a question id outside the session's list
submit_answer_listed(user, session_id, question_id, answer, status) ==
    LET args == [user |-> user, session_id |-> session_id,
                 question_id |-> question_id, answer |-> answer,
                 status |-> status]
        i == find_session(session_id, user)
    IN
    /\ UNCHANGED <<questions, exam_configs, exam_results, now, inflight>>
    /\ IF i = 0 \/ (i # 0 /\ exam_sessions[i].submitted)
       THEN /\ response' = HTTPException("submit_answer", 404)
            /\ UNCHANGED exam_sessions
       ELSE IF question_id \notin Range(exam_sessions[i].questions)
       THEN /\ response' = HTTPException("submit_answer", 400)
            /\ UNCHANGED exam_sessions
       ELSE /\ exam_sessions' =
                  [exam_sessions EXCEPT
                      ![i].answers = DictSet(@, question_id, answer),
                      ![i].question_status = DictSet(@, question_id, status)]
            /\ response' = Ok("submit_answer", args,
                              [message |-> "Answer saved successfully"])

submit_answer(user, session_id, question_id, answer, status) ==
    LET args == [user |-> user, session_id |-> session_id,
                 question_id |-> question_id, answer |-> answer,
                 status |-> status]
        i == find_session(session_id, user)
    IN
    /\ UNCHANGED <<questions, exam_configs, exam_results, now, inflight>>
    /\ IF i = 0 \/ (i # 0 /\ exam_sessions[i].submitted)
       THEN /\ response' = HTTPException("submit_answer", 404)
            /\ UNCHANGED exam_sessions
       ELSE /\ exam_sessions' =
                  [exam_sessions EXCEPT
                      ![i].answers = DictSet(@, question_id, answer),
                      ![i].question_status = DictSet(@, question_id, status)]
            /\ response' = Ok("submit_answer", args,
                              [message |-> "Answer saved successfully"])

-----------------------------------------------------------------------------
(* submit_exam *)

\* ids of the options flagged is_correct, in option order
correct_option_ids(question) ==
    SelectSeq([i \in DOMAIN question.options |->
                  IF question.options[i].is_correct
                  THEN question.options[i].id ELSE ""],
              LAMBDA x : x # "")

\* the check against the ids of all options
check_mcq_any_option(question, user_answer) ==
    py_in_ids(user_answer,
              [i \in DOMAIN question.options |-> question.options[i].id])

\* lines 696-699
check_mcq(question, user_answer) ==
    py_in_ids(user_answer, correct_option_ids(question))

\* the check that every selected option is correct
check_msq_subset(question, user_answer) ==
    py_set_of_answer(user_answer) \subseteq
        {StrElem(x) : x \in Range(correct_option_ids(question))}

\* lines 700-704
check_msq(question, user_answer) ==
    py_set_of_answer(user_answer) =
        {StrElem(x) : x \in Range(correct_option_ids(question))}

\* the check that compares the stored values without float()
check_nat_text(question, user_answer) ==
    user_answer = question.correct_answer

\* lines 705-710: a failed float() is caught and gives False
check_nat(question, user_answer) ==
    LET a == py_float(user_answer)
        c == py_float(question.correct_answer)
    IN a.ok /\ c.ok /\ a.v = c.v

\* lines 694-710
is_correct(question, user_answer) ==
    CASE question.question_type = MCQ -> check_mcq(question, user_answer)
      [] question.question_type = MSQ -> check_msq(question, user_answer)
      [] question.question_type = NAT -> check_nat(question, user_answer)
      [] OTHER -> FALSE

\* the count of every status but NOT_VISITED
count_visited(session) ==
    Cardinality({q \in DOMAIN session.question_status :
                    session.question_status[q] # NOT_VISITED})

\* lines 671-672: counted from the status map, not from the answers
count_attempted(session) ==
    Cardinality({q \in DOMAIN session.question_status :
                    session.question_status[q] \in {ANSWERED, MARKED_ANSWERED}})

\* lines 685-688
touch_subject(sws, subject) ==
    LET d == IF subject \in DOMAIN sws THEN sws
             ELSE DictSet(sws, subject, [correct |-> 0, attempted |-> 0, total |-> 0])
    IN [d EXCEPT ![subject].total = @ + 1]

\* one pass of the loop body, lines 680-718
score_question(db_questions, session, question_id, acc) ==
    IF question_id \notin DOMAIN db_questions THEN acc
    ELSE LET question == db_questions[question_id]
             subject == question.subject
             sws == touch_subject(acc.subject_wise_score, subject)
         IN IF question_id \notin DOMAIN session.answers
            THEN [acc EXCEPT !.subject_wise_score = sws]
            ELSE IF is_correct(question, session.answers[question_id])
            THEN [acc EXCEPT
                    !.subject_wise_score =
                        [sws EXCEPT ![subject].attempted = @ + 1,
                                    ![subject].correct = @ + 1],
                    !.correct = @ + 1,
                    !.total_score = @ + question.marks]
            ELSE [acc EXCEPT
                    !.subject_wise_score =
                        [sws EXCEPT ![subject].attempted = @ + 1],
                    !.incorrect = @ + 1,
                    !.total_score = @ - question.negative_marks]

\* the loop of lines 679-718 from position i on
RECURSIVE score_loop(_, _, _, _)
score_loop(db_questions, session, i, acc) ==
    IF i > Len(session.questions) THEN acc
    ELSE score_loop(db_questions, session, i + 1,
                    score_question(db_questions, session, session.questions[i], acc))

\* the score without the floor
max0_unclamped(x) == x

\* line 733: max(0, total_score)
max0(x) == IF x > 0 THEN x ELSE 0

\* the percentage with an integer division
percentage_floor_div(correct, total_questions) ==
    IF total_questions > 0 THEN Ratio((correct \div total_questions) * 100, 1)
    ELSE Ratio(0, 1)

\* line 734
percentage_of(correct, total_questions) ==
    IF total_questions > 0 THEN Ratio(correct * 100, total_questions)
    ELSE Ratio(0, 1)

TicksPerMinute == 2

\* lines 674-677: the counters before the loop
NoScore ==
    [correct |-> 0, incorrect |-> 0, subject_wise_score |-> <<>>, total_score |-> 0]

\* lines 669-672 and 720-737: the result of the counters acc of the loop
make_result(session, acc, user, result_id, end_time) ==
    LET total_questions == Len(session.questions)
    IN [id |-> result_id,
        user_id |-> user,
        exam_session_id |-> session.id,
        total_questions |-> total_questions,
        attempted |-> count_attempted(session),
        correct |-> acc.correct,
        incorrect |-> acc.incorrect,
        score |-> max0(acc.total_score),
        percentage |-> percentage_of(acc.correct, total_questions),
        subject_wise_score |-> acc.subject_wise_score,
        time_taken_minutes |-> (end_time - session.start_time) \div TicksPerMinute,
        submitted_at |-> end_time]

\* lines 669-737
compute_result(db_questions, session, user, result_id, end_time) ==
    make_result(session, score_loop(db_questions, session, 1, NoScore),
                user, result_id, end_time)

\* the early return that forgets to return
stored_result_ignored(session, r) == FALSE

\* lines 663-667: the session is submitted and its result is on file
stored_result_found(session, r) == session.submitted /\ r # 0

submit_exam(user, session_id) ==
    LET args == [user |-> user, session_id |-> session_id]
        i == find_session(session_id, user)
        r == find_result(session_id)
    IN
    /\ UNCHANGED <<questions, exam_configs, now, inflight>>
    /\ IF i = 0
       THEN /\ response' = HTTPException("submit_exam", 404)
            /\ UNCHANGED <<exam_sessions, exam_results>>
       ELSE IF stored_result_found(exam_sessions[i], r)
       THEN /\ response' = Ok("submit_exam", args, exam_results[r])
            /\ UNCHANGED <<exam_sessions, exam_results>>
       ELSE LET result == compute_result(questions, exam_sessions[i], user,
                                         Len(exam_results) + 1, now)
            IN /\ exam_sessions' = [exam_sessions EXCEPT
                                       ![i].submitted = TRUE,
                                       ![i].end_time = now]
               /\ exam_results' = Append(exam_results, result)
               /\ response' = Ok("submit_exam", args, result)

-----------------------------------------------------------------------------
(* delete_question *)

\* the dependency that lets every authenticated user through
get_admin_user_any_role(user) == TRUE

\* lines 209-215: TRUE when the dependency returns, FALSE when it raises 403
get_admin_user(user) == UserRole[user] = ADMIN

delete_question(user, question_id) ==
    LET args == [user |-> user, question_id |-> question_id]
    IN
    /\ UNCHANGED <<exam_configs, exam_sessions, exam_results, now, inflight>>
    /\ IF ~get_admin_user(user)
       THEN /\ response' = HTTPException("delete_question", 403)
            /\ UNCHANGED questions
       ELSE IF question_id \notin DOMAIN questions
       THEN /\ response' = HTTPException("delete_question", 404)
            /\ UNCHANGED questions
       ELSE /\ questions' = [q \in DOMAIN questions \ {question_id} |-> questions[q]]
            /\ response' = Ok("delete_question", args,
                              [message |-> "Question deleted successfully"])

-----------------------------------------------------------------------------
(* get_exam_session, get_exam_result, get_detailed_exam_results *)

\* lines 556-569
get_exam_session(user, session_id) ==
    LET args == [user |-> user, session_id |-> session_id]
        i == find_session(session_id, user)
    IN
    /\ UNCHANGED <<questions, exam_configs, exam_sessions, exam_results, now, inflight>>
    /\ IF i = 0
       THEN response' = HTTPException("get_exam_session", 404)
       ELSE response' = Ok("get_exam_session", args, exam_sessions[i])

\* the result filter without the owner
find_result_any_user(session_id, user) == find_result(session_id)

\* find_one({"exam_session_id": session_id, "user_id": user}): 0 if none
find_result_of_user(session_id, user) ==
    LET hits == {i \in DOMAIN exam_results :
                    /\ exam_results[i].exam_session_id = session_id
                    /\ exam_results[i].user_id = user}
    IN IF hits = {} THEN 0 ELSE Min(hits)

\* lines 754-767
get_exam_result(user, session_id) ==
    LET args == [user |-> user, session_id |-> session_id]
        r == find_result_of_user(session_id, user)
    IN
    /\ UNCHANGED <<questions, exam_configs, exam_sessions, exam_results, now, inflight>>
    /\ IF r = 0
       THEN response' = HTTPException("get_exam_result", 404)
       ELSE response' = Ok("get_exam_result", args, exam_results[r])

\* bool(v) of a stored answer: None, "", 0.0 and [] are false
py_truthy(v) ==
    CASE v.kind = "none" -> FALSE
      [] v.kind = "str" -> v.s[1] # ""
      [] v.kind = "num" -> v.n # 0
      [] v.kind = "list" -> v.s # <<>>

\* the options flagged is_correct, in option order
correct_options_of(question) ==
    SelectSeq(question.options, LAMBDA opt : opt.is_correct)

\* lines 836-859: the verdict the detailed view recomputes
detailed_is_correct(question, user_answer) ==
    LET correct_options == correct_options_of(question)
        correct_ids == [i \in DOMAIN correct_options |-> correct_options[i].id]
    IN CASE question.question_type = MCQ ->
               py_truthy(user_answer) /\ py_in_ids(user_answer, correct_ids)
         [] question.question_type = MSQ ->
               /\ py_truthy(user_answer)
               /\ user_answer.kind = "list"
               /\ Range(user_answer.s) = Range(correct_ids)
         [] question.question_type = NAT ->
               /\ py_truthy(user_answer)
               /\ py_float(user_answer).ok
               /\ py_float(question.correct_answer).ok
               /\ py_float(user_answer).v = py_float(question.correct_answer).v

\* lines 839-853: the correct answer shown, option texts for MCQ and MSQ
detailed_correct_answer(question) ==
    LET correct_options == correct_options_of(question)
        texts == [i \in DOMAIN correct_options |-> correct_options[i].text]
    IN CASE question.question_type = MCQ ->
               IF texts = <<>> THEN PyNone ELSE PyStr(texts[1])
         [] question.question_type = MSQ -> PyList(texts)
         [] question.question_type = NAT -> question.correct_answer

\* lines 861-872: the text of the user's answer; a number is shown by str()
user_answer_text(question, user_answer) ==
    IF ~py_truthy(user_answer) THEN PyNone
    ELSE IF question.question_type \in {MCQ, MSQ}
    THEN IF user_answer.kind = "list"
         THEN LET selected == SelectSeq(question.options,
                                  LAMBDA opt : opt.id \in Range(user_answer.s))
              IN PyList([i \in DOMAIN selected |-> selected[i].text])
         ELSE LET selected == SelectSeq(question.options,
                                  LAMBDA opt : /\ user_answer.kind = "str"
                                               /\ opt.id = user_answer.s[1])
              IN IF selected = <<>> THEN PyStr("Unknown")
                 ELSE PyStr(selected[1].text)
    ELSE IF user_answer.kind = "str" THEN user_answer
    ELSE [kind |-> "str", s |-> <<"str", user_answer>>, n |-> 0]

\* lines 874-889: one entry of the detailed list
detailed_question(question, session, i) ==
    LET user_answer == DictGet(session.answers, question.id)
    IN [question_number |-> i,
        question_id |-> question.id,
        question_type |-> question.question_type,
        subject |-> question.subject,
        marks |-> question.marks,
        options |-> question.options,
        user_answer |-> user_answer,
        user_answer_text |-> user_answer_text(question, user_answer),
        correct_answer |-> detailed_correct_answer(question),
        is_correct |-> detailed_is_correct(question, user_answer),
        status |-> IF question.id \in DOMAIN session.question_status
                   THEN session.question_status[question.id]
                   ELSE NOT_ANSWERED]

\* lines 806-900
get_detailed_exam_results(user, session_id) ==
    LET args == [user |-> user, session_id |-> session_id]
        i == find_session(session_id, user)
        r == find_result(session_id)
    IN
    /\ UNCHANGED <<questions, exam_configs, exam_sessions, exam_results, now, inflight>>
    /\ IF i = 0 \/ r = 0
       THEN response' = HTTPException("get_detailed_exam_results", 404)
       ELSE LET session == exam_sessions[i]
                found == SelectSeq([k \in DOMAIN session.questions |-> k],
                             LAMBDA k : session.questions[k] \in DOMAIN questions)
                detailed_questions ==
                    [k \in DOMAIN found |->
                        detailed_question(questions[session.questions[found[k]]],
                                          session, found[k])]
            IN response' =
                  Ok("get_detailed_exam_results", args,
                     [session_id |-> session_id,
                      total_questions |-> Len(detailed_questions),
                      questions |-> detailed_questions,
                      overall_result |->
                          [score |-> exam_results[r].score,
                           percentage |-> exam_results[r].percentage,
                           correct |-> exam_results[r].correct,
                           incorrect |-> exam_results[r].incorrect,
                           attempted |-> exam_results[r].attempted]])

-----------------------------------------------------------------------------

(* The question store: create, list, share, visibility *)

\* uuid4 ids of created questions and exam configs, and the order in which
\* the store holds the questions (the bank first, then the created ones)
NewQuestionIds == <<"n1", "n2", "n3">>
NewExamIds == <<"x1", "x2", "x3">>
StoreOrder == <<"q1", "q2", "q3">> \o NewQuestionIds

\* str(uuid.uuid4()): the first id of the pool that was never handed out;
\* "" when the pool is used up
uuid4(pool, used) ==
    LET free == {i \in DOMAIN pool : \A j \in i..Len(pool) : pool[j] \notin used}
    IN IF free = {} THEN "" ELSE pool[Min(free)]

\* find(...).to_list(): the documents in insertion order
to_list(db_questions, ids) ==
    LET kept == SelectSeq(StoreOrder, LAMBDA x : x \in ids)
    IN [i \in DOMAIN kept |-> db_questions[kept[i]]]

\* the e-mail address each user registered with
EmailOf == [u \in Users |-> <<u, "@example.com">>]

\* QuestionSource
SOURCE_ADMIN == "admin"
SOURCE_STUDENT == "student"

\* Question(**question_dict) of a QuestionCreate, lines 266-268 and 368-371
NewQuestion(id, question_data, created_by) ==
    [id |-> id, question_type |-> question_data.question_type,
     subject |-> question_data.subject, marks |-> question_data.marks,
     negative_marks |-> question_data.negative_marks,
     options |-> question_data.options,
     correct_answer |-> question_data.correct_answer,
     created_by |-> created_by, source |-> question_data.source,
     shared_with |-> {}, is_public |-> question_data.is_public]

\* insert_one on the question store
insert_question(db_questions, question) ==
    [q \in DOMAIN db_questions \cup {question.id} |->
        IF q = question.id THEN question ELSE db_questions[q]]

\* lines 261-271
create_question(user, question_data) ==
    LET args == [user |-> user, question_data |-> question_data]
        id == uuid4(NewQuestionIds, DOMAIN questions)
        question == NewQuestion(id, question_data, user)
    IN
    /\ UNCHANGED <<exam_configs, exam_sessions, exam_results, now, inflight>>
    /\ IF ~get_admin_user(user)
       THEN /\ response' = HTTPException("create_question", 403)
            /\ UNCHANGED questions
       ELSE /\ questions' = insert_question(questions, question)
            /\ response' = Ok("create_question", args, question)

\* find(query).skip(skip).limit(limit), lines 280-285
skip_limit(docs, skip, limit) ==
    SubSeq(docs, skip + 1, IF skip + limit < Len(docs) THEN skip + limit ELSE Len(docs))

\* lines 273-285; subject is "" when the parameter is left out
get_questions(user, skip, limit, subject) ==
    LET args == [user |-> user, skip |-> skip, limit |-> limit, subject |-> subject]
        hits == {q \in DOMAIN questions :
                    subject # "" => questions[q].subject = subject}
    IN
    /\ UNCHANGED <<questions, exam_configs, exam_sessions, exam_results, now, inflight>>
    /\ IF ~get_admin_user(user)
       THEN response' = HTTPException("get_questions", 403)
       ELSE response' = Ok("get_questions", args,
                           skip_limit(to_list(questions, hits), skip, limit))

\* lines 359-374
create_student_question(user, question_data) ==
    LET args == [user |-> user, question_data |-> question_data]
        id == uuid4(NewQuestionIds, DOMAIN questions)
        source == IF UserRole[user] # ADMIN THEN SOURCE_STUDENT
                  ELSE question_data.source
        question == NewQuestion(id, [question_data EXCEPT !.source = source], user)
    IN
    /\ UNCHANGED <<exam_configs, exam_sessions, exam_results, now, inflight>>
    /\ questions' = insert_question(questions, question)
    /\ response' = Ok("create_student_question", args, question)

\* lines 376-413
share_question(user, question_id, recipient_emails) ==
    LET args == [user |-> user, question_id |-> question_id,
                 recipient_emails |-> recipient_emails]
        recipient_ids == {u \in Users : EmailOf[u] \in recipient_emails}
    IN
    /\ UNCHANGED <<exam_configs, exam_sessions, exam_results, now, inflight>>
    /\ IF question_id \notin DOMAIN questions
       THEN /\ response' = HTTPException("share_question", 404)
            /\ UNCHANGED questions
       ELSE IF /\ questions[question_id].created_by # user
               /\ UserRole[user] # ADMIN
       THEN /\ response' = HTTPException("share_question", 403)
            /\ UNCHANGED questions
       ELSE IF recipient_ids = {}
       THEN /\ response' = HTTPException("share_question", 400)
            /\ UNCHANGED questions
       ELSE LET new_shared == questions[question_id].shared_with \cup recipient_ids
            IN /\ questions' = [questions EXCEPT ![question_id].shared_with = new_shared]
               /\ response' = Ok("share_question", args,
                                 [shared_with |-> Cardinality(new_shared)])

\* the $or filter that shows every question
visible_query_all(question, user) == TRUE

\* lines 420-430: the $or filter, dropped for an admin
visible_query(question, user) ==
    \/ UserRole[user] = ADMIN
    \/ question.created_by = user
    \/ user \in question.shared_with
    \/ question.is_public

\* lines 435-443
user_relation(question, user) ==
    IF question.created_by = user THEN "own"
    ELSE IF user \in question.shared_with THEN "shared"
    ELSE IF question.is_public THEN "public"
    ELSE "admin"

\* lines 415-451
get_user_questions(user) ==
    LET args == [user |-> user]
        hits == {q \in DOMAIN questions : visible_query(questions[q], user)}
        docs == to_list(questions, hits)
    IN
    /\ UNCHANGED <<questions, exam_configs, exam_sessions, exam_results, now, inflight>>
    /\ response' =
          Ok("get_user_questions", args,
             [i \in DOMAIN docs |->
                 [question |-> docs[i],
                  user_relation |-> user_relation(docs[i], user),
                  creator_email |-> EmailOf[docs[i].created_by]]])

-----------------------------------------------------------------------------

(* Import, preview and text extraction; exam configurations *)

\* file.filename.endswith(suffix): a file name is the sequence of its parts
endswith(filename, suffix) == filename # <<>> /\ filename[Len(filename)] = suffix

\* str.upper() and str.lower() on the words that occur in import files
py_upper(x) ==
    CASE x \in {"mcq", "MCQ"} -> "MCQ"
      [] x \in {"nat", "NAT"} -> "NAT"
      [] x \in {"msq", "MSQ"} -> "MSQ"
      [] OTHER -> "ESSAY"
py_lower(x) ==
    CASE x \in {"true", "True", "TRUE"} -> "true"
      [] x \in {"yes", "Yes"} -> "yes"
      [] OTHER -> x

\* option ids of an imported question: four columns at most
OptionColumns == 4
ImportOptionIds == <<"o1", "o2", "o3", "o4">>

\* lines 318-323: the options of the filled option_i columns of a row
row_options(row, question_type) ==
    IF question_type \in {MCQ, MSQ}
    THEN LET filled == SelectSeq([i \in 1..OptionColumns |-> i],
                          LAMBDA i : i <= Len(row.options) /\ row.options[i].text # "")
         IN [k \in DOMAIN filled |->
               [id |-> ImportOptionIds[k], text |-> row.options[filled[k]].text,
                is_correct |-> py_lower(row.options[filled[k]].correct)
                                  \in {"true", "1", "yes"}]]
    ELSE <<>>

\* lines 312-340: the QuestionCreate a row parses to; ok is FALSE when the
\* parse raises (unknown type, no question_text column, marks not a number)
parse_row(row) ==
    LET type == py_upper(row.type)
        marks == IF row.marks = PyNone THEN [ok |-> TRUE, v |-> 1]
                 ELSE py_float(row.marks)
    IN IF type \notin QuestionType \/ ~row.has_question_text \/ ~marks.ok
       THEN [ok |-> FALSE]
       ELSE [ok |-> TRUE,
             data |-> [question_type |-> type, subject |-> row.subject,
                       marks |-> marks.v * 100, negative_marks |-> 33,
                       options |-> row_options(row, type),
                       correct_answer |-> row.correct_answer,
                       source |-> SOURCE_ADMIN, is_public |-> TRUE]]

\* lines 311-351: the rows in order, every parsed row inserted, the row
\* numbers (from 2) of the others collected
RECURSIVE import_rows(_, _, _, _)
import_rows(rows, i, user, acc) ==
    IF i > Len(rows) THEN acc
    ELSE LET parsed == parse_row(rows[i])
             id == uuid4(NewQuestionIds, DOMAIN acc.questions)
         IN IF parsed.ok
            THEN import_rows(rows, i + 1, user,
                    [acc EXCEPT
                        !.questions = insert_question(@, NewQuestion(id, parsed.data, user)),
                        !.questions_added = @ + 1])
            ELSE import_rows(rows, i + 1, user,
                    [acc EXCEPT !.errors = Append(@, i + 1)])

\* lines 298-357
upload_csv_questions(user, file) ==
    LET args == [user |-> user, file |-> file]
        done == import_rows(file.rows, 1, user,
                            [questions |-> questions, questions_added |-> 0,
                             errors |-> <<>>])
    IN
    /\ UNCHANGED <<exam_configs, exam_sessions, exam_results, now, inflight>>
    /\ IF ~get_admin_user(user)
       THEN /\ response' = HTTPException("upload_csv_questions", 403)
            /\ UNCHANGED questions
       ELSE IF ~endswith(file.filename, ".csv")
       THEN /\ response' = HTTPException("upload_csv_questions", 400)
            /\ UNCHANGED questions
       ELSE /\ questions' = done.questions
            /\ response' = Ok("upload_csv_questions", args,
                              [questions_added |-> done.questions_added,
                               errors |-> done.errors])

\* line 919: the preview shows ten rows at most
PreviewRows == 10

\* lines 902-971: the same parse, nothing stored
preview_csv_questions(user, file) ==
    LET args == [user |-> user, file |-> file]
        shown == IF Len(file.rows) < PreviewRows THEN Len(file.rows) ELSE PreviewRows
    IN
    /\ UNCHANGED <<questions, exam_configs, exam_sessions, exam_results, now, inflight>>
    /\ IF ~get_admin_user(user)
       THEN response' = HTTPException("preview_csv_questions", 403)
       ELSE IF ~endswith(file.filename, ".csv")
       THEN response' = HTTPException("preview_csv_questions", 400)
       ELSE response' =
               Ok("preview_csv_questions", args,
                  [preview_questions |->
                       [i \in 1..shown |->
                           [row_number |-> i + 1, parsed |-> parse_row(file.rows[i])]],
                   total_rows |-> Len(file.rows),
                   showing_rows |-> shown])

\* line 474: the extracted text is cut to this many characters
TextBudget == 1000

\* the length of full_text: each page's text and a newline; -1 when a page
\* has no text (extract_text() is None and the concatenation raises)
RECURSIVE full_text_length(_, _)
full_text_length(pages, i) ==
    IF i > Len(pages) THEN 0
    ELSE LET rest == full_text_length(pages, i + 1)
         IN IF pages[i].kind # "num" \/ rest < 0 THEN -1
            ELSE pages[i].n + 1 + rest

\* lines 453-479
upload_pdf_questions(user, file) ==
    LET args == [user |-> user, file |-> file]
        length == full_text_length(file.pages, 1)
    IN
    /\ UNCHANGED <<questions, exam_configs, exam_sessions, exam_results, now, inflight>>
    /\ IF ~get_admin_user(user)
       THEN response' = HTTPException("upload_pdf_questions", 403)
       ELSE IF ~endswith(file.filename, ".pdf") \/ length < 0
       THEN response' = HTTPException("upload_pdf_questions", 400)
       ELSE response' =
               Ok("upload_pdf_questions", args,
                  [extracted_text_length |->
                       IF length > TextBudget THEN TextBudget + 3 ELSE length])

\* the exam configs in insertion order
ExamOrder == <<"e1", "e2", "e3">> \o NewExamIds

\* lines 482-492
create_exam_config(user, exam_data) ==
    LET args == [user |-> user, exam_data |-> exam_data]
        id == uuid4(NewExamIds, DOMAIN exam_configs)
        exam == [ExamConfig(id, exam_data.total_questions, exam_data.subjects)
                    EXCEPT !.created_by = user]
    IN
    /\ UNCHANGED <<questions, exam_sessions, exam_results, now, inflight>>
    /\ IF ~get_admin_user(user)
       THEN /\ response' = HTTPException("create_exam_config", 403)
            /\ UNCHANGED exam_configs
       ELSE /\ exam_configs' = [e \in DOMAIN exam_configs \cup {id} |->
                                   IF e = id THEN exam ELSE exam_configs[e]]
            /\ response' = Ok("create_exam_config", args, exam)

\* lines 494-497
get_exam_configs(user) ==
    LET kept == SelectSeq(ExamOrder, LAMBDA e : e \in DOMAIN exam_configs)
    IN
    /\ UNCHANGED <<questions, exam_configs, exam_sessions, exam_results, now, inflight>>
    /\ IF ~get_admin_user(user)
       THEN response' = HTTPException("get_exam_configs", 403)
       ELSE response' = Ok("get_exam_configs", [user |-> user],
                           [i \in DOMAIN kept |-> exam_configs[kept[i]]])

-----------------------------------------------------------------------------

(* The handlers one storage call at a time: each await of a handler is a    *)
(* step of its own, and the steps of concurrent requests interleave        *)

\* a request being served: the handler, the await it is at, its arguments
\* and the local variables it holds
Request(op, pc, args) == [op |-> op, pc |-> pc, args |-> args, held |-> <<>>]

RemoveAt(seq, k) == SubSeq(seq, 1, k - 1) \o SubSeq(seq, k + 1, Len(seq))

\* the request arrives and runs up to its first await
Begin(op, pc, args) ==
    /\ inflight' = Append(inflight, Request(op, pc, args))
    /\ UNCHANGED <<questions, exam_configs, exam_sessions, exam_results, now,
                   response>>

At(k, op, pc) == inflight[k].op = op /\ inflight[k].pc = pc

\* request k goes on to its next await holding the local variables held
Goto(k, pc, held) ==
    /\ inflight' = [inflight EXCEPT ![k].pc = pc, ![k].held = held]
    /\ UNCHANGED response

\* request k returns or raises r
Return(k, r) ==
    /\ inflight' = RemoveAt(inflight, k)
    /\ response' = r

\* update_one({"id": session_id}, {"$set": ...}): the first stored session
\* of that id takes the $set, given as what it makes of each stored session
update_one(sessions, session_id, updated) ==
    LET hits == {i \in DOMAIN sessions : sessions[i].id = session_id}
    IN [i \in DOMAIN sessions |->
          IF hits # {} /\ i = Min(hits) THEN updated[i] ELSE sessions[i]]

\* line 511
start_exam_find_config(k) ==
    LET a == inflight[k].args
    IN /\ At(k, "start_exam", "find_config")
       /\ UNCHANGED <<questions, exam_configs, exam_sessions, exam_results, now>>
       /\ IF a.exam_config_id \notin DOMAIN exam_configs
          THEN Return(k, HTTPException("start_exam", 404))
          ELSE Goto(k, "find_existing",
                    [exam_config |-> exam_configs[a.exam_config_id]])

\* lines 516-523
start_exam_find_existing(k) ==
    LET a == inflight[k].args
        existing == find_active_session(a.user, a.exam_config_id)
    IN /\ At(k, "start_exam", "find_existing")
       /\ UNCHANGED <<questions, exam_configs, exam_sessions, exam_results, now>>
       /\ IF existing # 0
          THEN Return(k, Ok("start_exam", a, exam_sessions[existing]))
          ELSE Goto(k, "find_questions", inflight[k].held)

\* lines 526-551: the query, the sample and the session built from it
start_exam_find_questions(k) ==
    LET a == inflight[k].args
        exam_config == inflight[k].held.exam_config
        all_questions == questions_of_subjects(exam_config.subjects)
    IN /\ At(k, "start_exam", "find_questions")
       /\ UNCHANGED <<questions, exam_configs, exam_sessions, exam_results, now>>
       /\ IF Cardinality(all_questions) < exam_config.total_questions
          THEN Return(k, HTTPException("start_exam", 400))
          ELSE IF exam_config.total_questions <= 0
          THEN Return(k, HTTPException("start_exam", 500))
          ELSE \E question_ids \in
                     random_sample(all_questions, exam_config.total_questions) :
                  Goto(k, "insert_session",
                       [session |-> ExamSession(0, a.user, a.exam_config_id,
                                        question_ids,
                                        initial_question_status(question_ids),
                                        now)])

\* the insert that looks for an unsubmitted session of the pair once more
\* and hands that one back
start_exam_insert_checked(k) ==
    LET a == inflight[k].args
        existing == find_active_session(a.user, a.exam_config_id)
        session == [inflight[k].held.session EXCEPT !.id = Len(exam_sessions) + 1]
    IN /\ At(k, "start_exam", "insert_session")
       /\ UNCHANGED <<questions, exam_configs, exam_results, now>>
       /\ IF existing # 0
          THEN /\ UNCHANGED exam_sessions
               /\ Return(k, Ok("start_exam", a, exam_sessions[existing]))
          ELSE /\ exam_sessions' = Append(exam_sessions, session)
               /\ Return(k, Ok("start_exam", a, session))

\* lines 553-554; the uuid4 id is the insertion index
start_exam_insert_session(k) ==
    LET session == [inflight[k].held.session EXCEPT !.id = Len(exam_sessions) + 1]
    IN /\ At(k, "start_exam", "insert_session")
       /\ UNCHANGED <<questions, exam_configs, exam_results, now>>
       /\ exam_sessions' = Append(exam_sessions, session)
       /\ Return(k, Ok("start_exam", inflight[k].args, session))

\* lines 577-588
get_exam_question_find_session(k) ==
    LET a == inflight[k].args
        i == find_session(a.session_id, a.user)
    IN /\ At(k, "get_exam_question", "find_session")
       /\ UNCHANGED <<questions, exam_configs, exam_sessions, exam_results, now>>
       /\ IF i = 0 \/ (i # 0 /\ exam_sessions[i].submitted)
          THEN Return(k, HTTPException("get_exam_question", 404))
          ELSE IF a.question_index >= Len(exam_sessions[i].questions)
          THEN Return(k, HTTPException("get_exam_question", 400))
          ELSE IF py_index(Len(exam_sessions[i].questions), a.question_index) = 0
          THEN Return(k, HTTPException("get_exam_question", 500))
          ELSE Goto(k, "find_question", [session |-> exam_sessions[i]])

\* lines 589-592
get_exam_question_find_question(k) ==
    LET a == inflight[k].args
        session == inflight[k].held.session
        question_id == session.questions[
                          py_index(Len(session.questions), a.question_index)]
    IN /\ At(k, "get_exam_question", "find_question")
       /\ UNCHANGED <<questions, exam_configs, exam_sessions, exam_results, now>>
       /\ IF question_id \notin DOMAIN questions
          THEN Return(k, HTTPException("get_exam_question", 404))
          ELSE Goto(k, "update_session",
                    [session |-> session, question |-> questions[question_id]])

\* lines 598-601: the $set on current_question and one status
set_current_question(stored, question_index, question_id) ==
    [stored EXCEPT !.current_question = question_index,
                   !.question_status = DictSet(@, question_id, NOT_ANSWERED)]

\* lines 594-621
get_exam_question_update_session(k) ==
    LET a == inflight[k].args
        session == inflight[k].held.session
        question == inflight[k].held.question
        updated == [i \in DOMAIN exam_sessions |->
                       set_current_question(exam_sessions[i], a.question_index,
                                            question.id)]
    IN /\ At(k, "get_exam_question", "update_session")
       /\ UNCHANGED <<questions, exam_configs, exam_results, now>>
       /\ exam_sessions' = update_one(exam_sessions, a.session_id, updated)
       /\ Return(k, Ok("get_exam_question", a,
                       question_payload(question, session, a.question_index)))

\* lines 629-635
submit_answer_find_session(k) ==
    LET a == inflight[k].args
        i == find_session(a.session_id, a.user)
    IN /\ At(k, "submit_answer", "find_session")
       /\ UNCHANGED <<questions, exam_configs, exam_sessions, exam_results, now>>
       /\ IF i = 0 \/ (i # 0 /\ exam_sessions[i].submitted)
          THEN Return(k, HTTPException("submit_answer", 404))
          ELSE Goto(k, "update_session", [session |-> exam_sessions[i]])

\* the document read earlier written back whole with the new answer
replace_with_held(stored, held, question_id, answer, status) ==
    [held EXCEPT !.answers = DictSet(@, question_id, answer),
                 !.question_status = DictSet(@, question_id, status)]

\* lines 640-645: the $set on one answer and one status of the stored document
set_answer(stored, held, question_id, answer, status) ==
    [stored EXCEPT !.answers = DictSet(@, question_id, answer),
                   !.question_status = DictSet(@, question_id, status)]

\* lines 637-648
submit_answer_update_session(k) ==
    LET a == inflight[k].args
        updated == [i \in DOMAIN exam_sessions |->
                       set_answer(exam_sessions[i], inflight[k].held.session,
                                  a.question_id, a.answer, a.status)]
    IN /\ At(k, "submit_answer", "update_session")
       /\ UNCHANGED <<questions, exam_configs, exam_results, now>>
       /\ exam_sessions' = update_one(exam_sessions, a.session_id, updated)
       /\ Return(k, Ok("submit_answer", a,
                       [message |-> "Answer saved successfully"]))

\* the local variables of submit_exam once the loop has scored the
\* questions up to position i - 1; after the last, lines 720-737 build the
\* result with end_time read from the clock
submit_exam_loop(k, session, i, acc) ==
    IF i <= Len(session.questions)
    THEN Goto(k, "find_question", [session |-> session, i |-> i, acc |-> acc])
    ELSE Goto(k, "update_session",
              [session |-> session,
               result |-> make_result(session, acc, inflight[k].args.user, 0, now)])

\* lines 655-663
submit_exam_find_session(k) ==
    LET a == inflight[k].args
        i == find_session(a.session_id, a.user)
    IN /\ At(k, "submit_exam", "find_session")
       /\ UNCHANGED <<questions, exam_configs, exam_sessions, exam_results, now>>
       /\ IF i = 0
          THEN Return(k, HTTPException("submit_exam", 404))
          ELSE IF exam_sessions[i].submitted
          THEN Goto(k, "find_result", [session |-> exam_sessions[i]])
          ELSE submit_exam_loop(k, exam_sessions[i], 1, NoScore)

\* lines 665-667
submit_exam_find_result(k) ==
    LET a == inflight[k].args
        r == find_result(a.session_id)
    IN /\ At(k, "submit_exam", "find_result")
       /\ UNCHANGED <<questions, exam_configs, exam_sessions, exam_results, now>>
       /\ IF r # 0
          THEN Return(k, Ok("submit_exam", a, exam_results[r]))
          ELSE submit_exam_loop(k, inflight[k].held.session, 1, NoScore)

\* lines 679-718: one find_one and the scoring of what it returned
submit_exam_find_question(k) ==
    LET session == inflight[k].held.session
        i == inflight[k].held.i
    IN /\ At(k, "submit_exam", "find_question")
       /\ UNCHANGED <<questions, exam_configs, exam_sessions, exam_results, now>>
       /\ submit_exam_loop(k, session, i + 1,
                           score_question(questions, session, session.questions[i],
                                          inflight[k].held.acc))

\* lines 742-746: the $set on submitted and end_time
set_submitted(stored, end_time) ==
    [stored EXCEPT !.submitted = TRUE, !.end_time = end_time]

\* lines 739-748
submit_exam_update_session(k) ==
    LET a == inflight[k].args
        updated == [i \in DOMAIN exam_sessions |->
                       set_submitted(exam_sessions[i],
                                     inflight[k].held.result.submitted_at)]
    IN /\ At(k, "submit_exam", "update_session")
       /\ UNCHANGED <<questions, exam_configs, exam_results, now>>
       /\ exam_sessions' = update_one(exam_sessions, a.session_id, updated)
       /\ Goto(k, "insert_result", inflight[k].held)

\* the insert that a unique index on exam_session_id would refuse
insert_one_unique(results, result) ==
    IF \E i \in DOMAIN results : results[i].exam_session_id = result.exam_session_id
    THEN results
    ELSE Append(results, [result EXCEPT !.id = Len(results) + 1])

\* line 751: insert_one on exam_results; the uuid4 id is the insertion index
insert_one_result(results, result) ==
    Append(results, [result EXCEPT !.id = Len(results) + 1])

\* lines 750-752
submit_exam_insert_result(k) ==
    LET a == inflight[k].args
    IN /\ At(k, "submit_exam", "insert_result")
       /\ UNCHANGED <<questions, exam_configs, exam_sessions, now>>
       /\ exam_results' = insert_one_result(exam_results, inflight[k].held.result)
       /\ Return(k, Ok("submit_exam", a, exam_results'[Len(exam_results')]))

-----------------------------------------------------------------------------

(* The clock: datetime.now() never goes back *)

Tick ==
    /\ now < MaxTime
    /\ now' = now + 1
    /\ UNCHANGED <<questions, exam_configs, exam_sessions, exam_results, response,
                   inflight>>

-----------------------------------------------------------------------------
(* Specification Spec: several users and sessions, requests one at a time *)

NoResponse == [op |-> "none", args |-> <<>>, code |-> 0, body |-> <<>>]

\* the requests being served: none when requests run one at a time
NoRequests == <<>>

\* the users who sit exams, and the exams they ask for ("e9" is unknown)
Callers == {"u1", "adm"}
ExamIdInputs == {"e2", "e3", "e9"}
SessionIdInputs == 1..MaxSessions
AnswerInputs == {PyStr("A")}
StatusInputs == {ANSWERED}

\* the model's bounds on the stored documents
WithinBounds(sessions) ==
    /\ Len(sessions) <= MaxSessions
    /\ \A i \in DOMAIN sessions :
          Cardinality(DOMAIN sessions[i].answers) <= MaxAnswered

Init ==
    /\ questions = QuestionBank
    /\ exam_configs = ExamCatalog
    /\ exam_sessions = <<>>
    /\ exam_results = <<>>
    /\ now = 0
    /\ response = NoResponse
    /\ inflight = NoRequests

StartExam ==
    \E u \in Callers, e \in ExamIdInputs :
        start_exam(u, e) /\ WithinBounds(exam_sessions')

GetExamQuestion ==
    \E u \in Callers, sid \in SessionIdInputs, idx \in 0..1 :
        get_exam_question(u, sid, idx)

SubmitAnswer ==
    \E u \in Callers, sid \in SessionIdInputs, q \in DOMAIN QuestionBank,
       a \in AnswerInputs, st \in StatusInputs :
        submit_answer(u, sid, q, a, st) /\ WithinBounds(exam_sessions')

SubmitExam == \E u \in Callers, sid \in SessionIdInputs : submit_exam(u, sid)

Next ==
    \/ StartExam
    \/ GetExamQuestion
    \/ SubmitAnswer
    \/ SubmitExam

Spec == Init /\ [][Next]_vars

-----------------------------------------------------------------------------
(* Specification SpecAdmin: three users, one of them an admin, on the       *)
(* question store and the exam configurations                              *)

AdminCallers == {"u1", "u2", "adm"}

\* QuestionCreate bodies: a private MCQ and a public NAT question
QuestionCreateInputs ==
    {[question_type |-> MCQ, subject |-> "Math", marks |-> 100,
      negative_marks |-> 33,
      options |-> <<QuestionOption("A", TRUE), QuestionOption("B", FALSE)>>,
      correct_answer |-> PyNone, source |-> SOURCE_ADMIN, is_public |-> FALSE],
     [question_type |-> NAT, subject |-> "Phys", marks |-> 100,
      negative_marks |-> 33, options |-> <<>>,
      correct_answer |-> PyStr("4"), source |-> SOURCE_ADMIN, is_public |-> TRUE]}

\* uploaded files: a csv of one good row and one row of an unknown type, the
\* same rows under another extension, a pdf of two pages and a pdf with a
\* page without text
ImportRows ==
    <<[type |-> "mcq", has_question_text |-> TRUE, subject |-> "Math",
       marks |-> PyStr("4"),
       options |-> <<[text |-> "x", correct |-> "Yes"], [text |-> "", correct |-> ""],
                     [text |-> "y", correct |-> "no"]>>,
       correct_answer |-> PyNone],
      [type |-> "essay", has_question_text |-> TRUE, subject |-> "Math",
       marks |-> PyNone, options |-> <<>>, correct_answer |-> PyNone]>>
FileInputs ==
    {[filename |-> <<"bank", ".csv">>, rows |-> ImportRows, pages |-> <<>>],
     [filename |-> <<"bank", ".txt">>, rows |-> ImportRows, pages |-> <<>>],
     [filename |-> <<"book", ".pdf">>, rows |-> <<>>,
      pages |-> <<PyNum(600), PyNum(600)>>],
     [filename |-> <<"scan", ".pdf">>, rows |-> <<>>,
      pages |-> <<PyNum(10), PyNone>>]}

ExamDataInputs ==
    {[total_questions |-> 3, subjects |-> {"Math"}],
     [total_questions |-> 1, subjects |-> {"Phys"}]}

ShareInputs == {{EmailOf["u2"]}, {<<"nobody", "@example.com">>}}

\* the model's bounds on the created documents
WithinCreated(db_questions, db_exam_configs) ==
    /\ DOMAIN db_questions \subseteq
          DOMAIN QuestionBank \cup Range(SubSeq(NewQuestionIds, 1, MaxCreated))
    /\ DOMAIN db_exam_configs \subseteq
          DOMAIN ExamCatalog \cup Range(SubSeq(NewExamIds, 1, MaxExamsCreated))

AdminCreateQuestion ==
    \E u \in AdminCallers, d \in QuestionCreateInputs :
        create_question(u, d) /\ WithinCreated(questions', exam_configs')

AdminGetQuestions ==
    \E u \in AdminCallers, skip \in {0, 1}, limit \in {1, 100},
       subject \in {"", "Math"} :
        get_questions(u, skip, limit, subject)

AdminDeleteQuestion ==
    \E u \in AdminCallers, q \in {"q2", "q3"} : delete_question(u, q)

AdminUploadCsv ==
    \E u \in AdminCallers, f \in FileInputs :
        upload_csv_questions(u, f) /\ WithinCreated(questions', exam_configs')

AdminPreviewCsv ==
    \E u \in AdminCallers, f \in FileInputs : preview_csv_questions(u, f)

AdminUploadPdf ==
    \E u \in AdminCallers, f \in FileInputs : upload_pdf_questions(u, f)

AdminCreateExamConfig ==
    \E u \in AdminCallers, d \in ExamDataInputs :
        create_exam_config(u, d) /\ WithinCreated(questions', exam_configs')

AdminGetExamConfigs == \E u \in AdminCallers : get_exam_configs(u)

AdminCreateStudentQuestion ==
    \E u \in AdminCallers, d \in QuestionCreateInputs :
        create_student_question(u, d) /\ WithinCreated(questions', exam_configs')

AdminShareQuestion ==
    \E u \in AdminCallers, q \in {"q1", "n1"}, r \in ShareInputs :
        share_question(u, q, r)

AdminGetUserQuestions == \E u \in AdminCallers : get_user_questions(u)

NextAdmin ==
    \/ AdminCreateQuestion
    \/ AdminGetQuestions
    \/ AdminDeleteQuestion
    \/ AdminUploadCsv
    \/ AdminPreviewCsv
    \/ AdminUploadPdf
    \/ AdminCreateExamConfig
    \/ AdminGetExamConfigs
    \/ AdminCreateStudentQuestion
    \/ AdminShareQuestion
    \/ AdminGetUserQuestions

SpecAdmin == Init /\ [][NextAdmin]_vars

-----------------------------------------------------------------------------
(* Specification SpecStart: exams are started and submitted while the admin *)
(* adds and deletes questions and adds exam configurations                 *)

StartCallers == {"u1"}
StartExamInputs == {"e1", "e3", "x1", "e9"}
StartDeleteInputs == {"q1", "q3"}

WithinStart(sessions) == Len(sessions) <= MaxStartSessions

StartStart ==
    \E u \in StartCallers, e \in StartExamInputs :
        start_exam(u, e) /\ WithinStart(exam_sessions')

StartSubmit ==
    \E u \in StartCallers, sid \in 1..MaxStartSessions : submit_exam(u, sid)

StartDelete == \E q \in StartDeleteInputs : delete_question("adm", q)

StartCreateQuestion ==
    \E d \in QuestionCreateInputs :
        create_question("adm", d) /\ WithinCreated(questions', exam_configs')

StartCreateExamConfig ==
    \E d \in ExamDataInputs :
        create_exam_config("adm", d) /\ WithinCreated(questions', exam_configs')

NextStart ==
    \/ StartStart
    \/ StartSubmit
    \/ StartDelete
    \/ StartCreateQuestion
    \/ StartCreateExamConfig

SpecStart == Init /\ [][NextStart]_vars

-----------------------------------------------------------------------------

(* Specification SpecOwner: one user sits an exam of one question; the      *)
(* owner, another student and an admin call every session operation        *)

OwnerCallers == {"u1", "u2", "adm"}
OwnerExamInputs == {"e2", "e3"}
OwnerSessionIds == {1}

WithinOwner(sessions) ==
    /\ Len(sessions) <= 1
    /\ \A i \in DOMAIN sessions :
          Cardinality(DOMAIN sessions[i].answers) <= MaxAnswered

OwnerStart ==
    \E e \in OwnerExamInputs : start_exam("u1", e) /\ WithinOwner(exam_sessions')

OwnerGetSession ==
    \E u \in OwnerCallers, sid \in OwnerSessionIds : get_exam_session(u, sid)

OwnerGetQuestion ==
    \E u \in OwnerCallers, sid \in OwnerSessionIds, idx \in 0..1 :
        get_exam_question(u, sid, idx)

OwnerAnswer ==
    \E u \in OwnerCallers, sid \in OwnerSessionIds, q \in DOMAIN QuestionBank,
       a \in AnswerInputs, st \in StatusInputs :
        submit_answer(u, sid, q, a, st) /\ WithinOwner(exam_sessions')

OwnerSubmit ==
    \E u \in OwnerCallers, sid \in OwnerSessionIds : submit_exam(u, sid)

OwnerGetResult ==
    \E u \in OwnerCallers, sid \in OwnerSessionIds : get_exam_result(u, sid)

OwnerGetDetailed ==
    \E u \in OwnerCallers, sid \in OwnerSessionIds :
        get_detailed_exam_results(u, sid)

NextOwner ==
    \/ OwnerStart
    \/ OwnerGetSession
    \/ OwnerGetQuestion
    \/ OwnerAnswer
    \/ OwnerSubmit
    \/ OwnerGetResult
    \/ OwnerGetDetailed

SpecOwner == Init /\ [][NextOwner]_vars

-----------------------------------------------------------------------------

(* Specification SpecSteps: one user, one exam of one question, up to       *)
(* MaxInflight requests served at once, their storage calls interleaved    *)

StepsUser == "u1"
StepsExam == "e3"
StepsSessionIds == {1}
StepsAnswerInputs == {PyList(<<"A", "B">>)}

\* the requests of a handler that are being served
Serving(op) == {k \in DOMAIN inflight : inflight[k].op = op}

CanBegin == Len(inflight) < MaxInflight

BeginStartExam ==
    /\ CanBegin
    /\ Len(exam_sessions) + Cardinality(Serving("start_exam")) < MaxStepSessions
    /\ Begin("start_exam", "find_config",
             [user |-> StepsUser, exam_config_id |-> StepsExam])

BeginGetExamQuestion ==
    /\ CanBegin
    /\ \E sid \in StepsSessionIds :
          Begin("get_exam_question", "find_session",
                [user |-> StepsUser, session_id |-> sid, question_index |-> 0])

BeginSubmitAnswer ==
    /\ CanBegin
    /\ \E sid \in StepsSessionIds, a \in StepsAnswerInputs :
          Begin("submit_answer", "find_session",
                [user |-> StepsUser, session_id |-> sid, question_id |-> "q3",
                 answer |-> a, status |-> ANSWERED])

BeginSubmitExam ==
    /\ CanBegin
    /\ Len(exam_results) + Cardinality(Serving("submit_exam")) < MaxStepResults
    /\ \E sid \in StepsSessionIds :
          Begin("submit_exam", "find_session",
                [user |-> StepsUser, session_id |-> sid])

StartExamFindConfig == \E k \in DOMAIN inflight : start_exam_find_config(k)
StartExamFindExisting == \E k \in DOMAIN inflight : start_exam_find_existing(k)
StartExamFindQuestions == \E k \in DOMAIN inflight : start_exam_find_questions(k)
StartExamInsertSession == \E k \in DOMAIN inflight : start_exam_insert_session(k)
GetExamQuestionFindSession ==
    \E k \in DOMAIN inflight : get_exam_question_find_session(k)
GetExamQuestionFindQuestion ==
    \E k \in DOMAIN inflight : get_exam_question_find_question(k)
GetExamQuestionUpdateSession ==
    \E k \in DOMAIN inflight : get_exam_question_update_session(k)
SubmitAnswerFindSession == \E k \in DOMAIN inflight : submit_answer_find_session(k)
SubmitAnswerUpdateSession ==
    \E k \in DOMAIN inflight : submit_answer_update_session(k)
SubmitExamFindSession == \E k \in DOMAIN inflight : submit_exam_find_session(k)
SubmitExamFindResult == \E k \in DOMAIN inflight : submit_exam_find_result(k)
SubmitExamFindQuestion == \E k \in DOMAIN inflight : submit_exam_find_question(k)
SubmitExamUpdateSession == \E k \in DOMAIN inflight : submit_exam_update_session(k)
SubmitExamInsertResult == \E k \in DOMAIN inflight : submit_exam_insert_result(k)

NextSteps ==
    \/ BeginStartExam
    \/ BeginGetExamQuestion
    \/ BeginSubmitAnswer
    \/ BeginSubmitExam
    \/ StartExamFindConfig
    \/ StartExamFindExisting
    \/ StartExamFindQuestions
    \/ StartExamInsertSession
    \/ GetExamQuestionFindSession
    \/ GetExamQuestionFindQuestion
    \/ GetExamQuestionUpdateSession
    \/ SubmitAnswerFindSession
    \/ SubmitAnswerUpdateSession
    \/ SubmitExamFindSession
    \/ SubmitExamFindResult
    \/ SubmitExamFindQuestion
    \/ SubmitExamUpdateSession
    \/ SubmitExamInsertResult

SpecSteps == Init /\ [][NextSteps]_vars

-----------------------------------------------------------------------------

(* Specification SpecOne: one user sits one exam of two questions; answers  *)
(* of two values and two statuses to any question id, any index, and        *)
(* deletion of the exam's questions                                        *)

OneAnswerInputs == {PyStr("A"), PyStr("4")}
OneStatusInputs == {ANSWERED, MARKED}
OneIndexInputs == -1..2

OneDeleteInputs == {"q1", "q2"}

\* one session, MaxOneAnswered stored answers
WithinOne(sessions) ==
    /\ Len(sessions) <= 1
    /\ \A i \in DOMAIN sessions :
          Cardinality(DOMAIN sessions[i].answers) <= MaxOneAnswered

OneStart == start_exam("u1", "e1") /\ WithinOne(exam_sessions')

OneQuestion == \E idx \in OneIndexInputs : get_exam_question("u1", 1, idx)

OneAnswer ==
    \E q \in DOMAIN QuestionBank, a \in OneAnswerInputs, st \in OneStatusInputs :
        submit_answer("u1", 1, q, a, st) /\ WithinOne(exam_sessions')

OneSubmit == submit_exam("u1", 1)

OneDelete == \E u \in Callers, q \in OneDeleteInputs : delete_question(u, q)

NextOne ==
    \/ OneStart
    \/ OneQuestion
    \/ OneAnswer
    \/ OneSubmit
    \/ OneDelete

SpecOne == Init /\ [][NextOne]_vars

-----------------------------------------------------------------------------
(* Specification SpecCheck: one user sits an exam of one question drawn    *)
(* from a bank that varies the question type and the answer key, and       *)
(* stores one answer of any shape before submitting                        *)

CheckBank ==
    [m1 |-> Question("m1", MCQ, "Check", 100, 33,
                     <<QuestionOption("A", TRUE), QuestionOption("B", FALSE)>>,
                     PyNone),
     m2 |-> Question("m2", MCQ, "Check", 100, 33,
                     <<QuestionOption("A", FALSE), QuestionOption("B", TRUE),
                       QuestionOption("C", FALSE)>>,
                     PyNone),
     s1 |-> Question("s1", MSQ, "Check", 100, 33,
                     <<QuestionOption("A", TRUE), QuestionOption("B", TRUE),
                       QuestionOption("C", FALSE)>>,
                     PyNone),
     s2 |-> Question("s2", MSQ, "Check", 100, 33,
                     <<QuestionOption("A", TRUE), QuestionOption("B", FALSE)>>,
                     PyNone),
     n1 |-> Question("n1", NAT, "Check", 100, 33, <<>>, PyStr("4.0")),
     n2 |-> Question("n2", NAT, "Check", 100, 33, <<>>, PyNum(4)),
     n3 |-> Question("n3", NAT, "Check", 100, 33, <<>>, PyNone),
     n4 |-> Question("n4", NAT, "Check", 100, 33, <<>>, PyStr("four"))]

CheckCatalog == [ec |-> ExamConfig("ec", 1, {"Check"})]

CheckAnswerInputs ==
    {PyStr(x) : x \in {"A", "B", "Z", "", "4", "4.0", " 4 ", "3", "four"}}
    \cup {PyNum(4), PyNum(3), PyNum(0)}
    \cup {PyList(xs) : xs \in {<<>>, <<"A">>, <<"A", "B">>, <<"B", "A">>,
                               <<"A", "A">>, <<"A", "B", "C">>, <<"4">>}}

WithinCheck(sessions) ==
    /\ Len(sessions) <= 1
    /\ \A i \in DOMAIN sessions :
          Cardinality(DOMAIN sessions[i].answers) <= MaxCheckAnswered

InitCheck ==
    /\ questions = CheckBank
    /\ exam_configs = CheckCatalog
    /\ exam_sessions = <<>>
    /\ exam_results = <<>>
    /\ now = 0
    /\ response = NoResponse
    /\ inflight = NoRequests

CheckStart == start_exam("u1", "ec") /\ WithinCheck(exam_sessions')

CheckAnswer ==
    \E a \in CheckAnswerInputs, st \in {ANSWERED} :
        /\ exam_sessions # <<>>
        /\ submit_answer("u1", 1, exam_sessions[1].questions[1], a, st)
        /\ WithinCheck(exam_sessions')

CheckSubmit == submit_exam("u1", 1)

NextCheck ==
    \/ CheckStart
    \/ CheckAnswer
    \/ CheckSubmit
    \/ Tick

SpecCheck == InitCheck /\ [][NextCheck]_vars

-----------------------------------------------------------------------------
(* Specification SpecDetail: SpecCheck with the detailed view read after   *)
(* submission                                                              *)

DetailGetDetailed == get_detailed_exam_results("u1", 1)

NextDetail ==
    \/ CheckStart
    \/ CheckAnswer
    \/ CheckSubmit
    \/ Tick
    \/ DetailGetDetailed

SpecDetail == InitCheck /\ [][NextDetail]_vars

-----------------------------------------------------------------------------

(* Claims *)

\* the unsubmitted sessions of a (user, exam config) pair in a session store
Unsubmitted(sessions, user, exam_config_id) ==
    {i \in DOMAIN sessions :
        /\ sessions[i].user_id = user
        /\ sessions[i].exam_config_id = exam_config_id
        /\ ~sessions[i].submitted}

\* C1: with requests one at a time, a start_exam that finds an unsubmitted
\* session of the caller for the exam returns that very session (id, question
\* list, answers, statuses) and inserts nothing; so no (user, exam config)
\* pair ever has two unsubmitted sessions.
C1_StartResumes ==
    [][/\ \A i \in DOMAIN exam_sessions :
             ( /\ response'.op = "start_exam"
               /\ response'.code = 200
               /\ i \in Unsubmitted(exam_sessions, response'.args.user,
                                    response'.args.exam_config_id) )
             => /\ response'.body = exam_sessions[i]
                /\ exam_sessions' = exam_sessions
       /\ \A u \in Users, e \in DOMAIN exam_configs :
             Cardinality(Unsubmitted(exam_sessions', u, e)) <= 1
      ]_vars

\* C1 witness: start_exam has just returned a session that already holds an
\* answer, while another session exists.
C1_Witness ==
    /\ response.op = "start_exam"
    /\ response.code = 200
    /\ DOMAIN response.body.answers # {}
    /\ Len(exam_sessions) = 2

\* the results on file for a session id
ResultsOf(results, session_id) ==
    {k \in DOMAIN results : results[k].exam_session_id = session_id}

\* C2: with requests one at a time, submit_exam on a submitted session returns
\* the result the first submission stored, inserts no result and leaves the
\* session as it is, whatever happened to the question store since; so every
\* submitted session has exactly one result.
C2_ResubmitReplays ==
    [][/\ \A i \in DOMAIN exam_sessions :
             ( /\ response'.op = "submit_exam"
               /\ response'.code = 200
               /\ response'.args.session_id = exam_sessions[i].id
               /\ exam_sessions[i].submitted )
             => /\ exam_results' = exam_results
                /\ exam_sessions' = exam_sessions
                /\ \E k \in DOMAIN exam_results :
                      /\ exam_results[k].exam_session_id = exam_sessions[i].id
                      /\ response'.body = exam_results[k]
       /\ \A i \in DOMAIN exam_sessions' :
             exam_sessions'[i].submitted
             => Cardinality(ResultsOf(exam_results', exam_sessions'[i].id)) = 1
      ]_vars

\* C2 witness: submit_exam has just replayed the stored result of a session
\* both of whose questions were scored and one of which has since been deleted.
C2_Witness ==
    /\ response.op = "submit_exam"
    /\ response.code = 200
    /\ Len(exam_results) = 1
    /\ response.body = exam_results[1]
    /\ "Math" \in DOMAIN response.body.subject_wise_score
    /\ response.body.subject_wise_score["Math"].total = 2
    /\ \E q \in Range(exam_sessions[1].questions) : q \notin DOMAIN questions

\* C3: a session is created with as many questions as its exam config's
\* total_questions, and no request (resume, get_exam_question, submit_answer,
\* submit_exam, delete_question) ever changes a session's question list.
C3_QuestionListFixed ==
    [][/\ \A i \in DOMAIN exam_sessions :
             /\ i \in DOMAIN exam_sessions'
             /\ exam_sessions'[i].id = exam_sessions[i].id
             /\ exam_sessions'[i].questions = exam_sessions[i].questions
       /\ \A i \in DOMAIN exam_sessions' \ DOMAIN exam_sessions :
             Len(exam_sessions'[i].questions) =
                 exam_configs[exam_sessions'[i].exam_config_id].total_questions
      ]_vars

\* C3 witness: a two-question session that was answered, navigated and
\* submitted, one of whose questions has since been deleted.
C3_Witness ==
    /\ Len(exam_sessions) = 1
    /\ Len(exam_sessions[1].questions) = 2
    /\ exam_sessions[1].submitted
    /\ exam_sessions[1].current_question = 1
    /\ DOMAIN exam_sessions[1].answers # {}
    /\ exam_sessions[1].questions[1] \notin DOMAIN questions

\* the sum of f over the set S
RECURSIVE SumOver(_, _)
SumOver(S, f) ==
    IF S = {} THEN 0
    ELSE LET x == CHOOSE y \in S : TRUE
         IN f[x] + SumOver(S \ {x}, f)

\* the session questions the scoring judges: answered and found in the store
Judged(session) ==
    Range(session.questions) \cap DOMAIN session.answers \cap DOMAIN questions

JudgedCorrect(session) ==
    {q \in Judged(session) : is_correct(questions[q], session.answers[q])}

\* the step in which session i is submitted and its result stored
Submits(i) ==
    /\ ~exam_sessions[i].submitted
    /\ exam_sessions'[i].submitted
    /\ Len(exam_results') = Len(exam_results) + 1
    /\ exam_results'[Len(exam_results')].exam_session_id = exam_sessions[i].id

\* C4: the score stored at submission is max(0, S), S the marks of the
\* answered questions judged correct minus the negative marks of the answered
\* questions judged incorrect; no stored score is negative.
C4_ScoreFormula ==
    [][/\ \A i \in DOMAIN exam_sessions :
             Submits(i) =>
             LET session == exam_sessions[i]
                 right == JudgedCorrect(session)
                 wrong == Judged(session) \ right
                 S == SumOver(right, [q \in right |-> questions[q].marks])
                      - SumOver(wrong, [q \in wrong |-> questions[q].negative_marks])
             IN exam_results'[Len(exam_results')].score = (IF S > 0 THEN S ELSE 0)
       /\ \A k \in DOMAIN exam_results' : exam_results'[k].score >= 0
      ]_vars

\* C4 witness: a result with one correct and one incorrect answer whose
\* score is the difference of the two marks.
C4_Witness ==
    \E k \in DOMAIN exam_results :
        /\ exam_results[k].correct = 1
        /\ exam_results[k].incorrect = 1
        /\ exam_results[k].score > 0
        /\ exam_results[k].score < 100

\* the answer keys a question may carry: any correct_answer and any flagging
\* of its options
KeyAnswers == {PyNone, PyStr("4.0"), PyStr("3"), PyNum(4), PyList(<<"A">>)}

KeyVariants(question) ==
    {[question EXCEPT
        !.correct_answer = c,
        !.options = [i \in DOMAIN question.options |->
                        [question.options[i] EXCEPT !.is_correct = f[i]]]] :
        c \in KeyAnswers, f \in [DOMAIN question.options -> BOOLEAN]}

\* C5: the payload get_exam_question has just returned is the payload it
\* returns from every question store that differs from the actual one only in
\* the answer key (correct_answer, the options' is_correct) of the fetched
\* question.
C5_NoKeyLeak ==
    (response.op = "get_exam_question" /\ response.code = 200) =>
    LET session == exam_sessions[response.args.session_id]
        question_id == session.questions[
                          py_index(Len(session.questions),
                                   response.args.question_index)]
    IN \A v \in KeyVariants(questions[question_id]) :
          get_exam_question_response([questions EXCEPT ![question_id] = v],
                                     session, response.args) = response

\* C5 witness: get_exam_question has just returned a question with options
\* one of which is flagged correct in the store, and the stored answer to it.
C5_Witness ==
    /\ response.op = "get_exam_question"
    /\ response.code = 200
    /\ response.body.question.question_type = MCQ
    /\ response.body.current_answer # PyNone
    /\ \E i \in DOMAIN questions[response.body.question.id].options :
          questions[response.body.question.id].options[i].is_correct

\* the ids of the options of a question flagged is_correct, as a set
CorrectIds(question) ==
    {question.options[i].id :
        i \in {j \in DOMAIN question.options : question.options[j].is_correct}}

\* the results of sessions whose single question has the given type and has
\* a stored answer; P(result, question, answer) is asked of each
Scored(type, P(_, _, _)) ==
    \A k \in DOMAIN exam_results :
        LET result == exam_results[k]
            session == exam_sessions[result.exam_session_id]
            question == questions[session.questions[1]]
        IN ( /\ Len(session.questions) = 1
             /\ question.question_type = type
             /\ question.id \in DOMAIN session.answers )
           => P(result, question, session.answers[question.id])

\* the answer read as a set of option ids equals the set of correct ids
MsqExact(question, answer) ==
    \/ answer.kind = "list" /\ Range(answer.s) = CorrectIds(question)
    \/ answer.kind = "str" /\ {answer.s[1]} = CorrectIds(question)

IsNumber(v) ==
    \/ v.kind = "num"
    \/ v.kind = "str" /\ v.s[1] \in {"4", "4.0", " 4 ", "3", "0", "-1"}

\* the number a value that IsNumber stands for
NumberOf(v) ==
    IF v.kind = "num" THEN v.n
    ELSE CASE v.s[1] = "3" -> 3
           [] v.s[1] = "0" -> 0
           [] v.s[1] = "-1" -> 0 - 1
           [] OTHER -> 4

NatEqual(question, answer) ==
    /\ IsNumber(answer)
    /\ IsNumber(question.correct_answer)
    /\ NumberOf(answer) = NumberOf(question.correct_answer)

\* C7: an answered NAT question is scored correct iff the stored answer and
\* correct_answer both read as numbers and the numbers are equal; otherwise
\* (also when one of them is no number or correct_answer is absent) it is
\* scored incorrect, and submit_exam still answers 200 with a stored result.
C7_NatNumericEquality ==
    /\ Scored(NAT, LAMBDA result, question, answer :
          /\ result.correct = (IF NatEqual(question, answer) THEN 1 ELSE 0)
          /\ result.incorrect = (IF NatEqual(question, answer) THEN 0 ELSE 1))
    /\ (response.op = "submit_exam" /\ exam_sessions # <<>>)
          => /\ response.code = 200
             /\ Len(exam_results) = 1
             /\ response.body = exam_results[1]

\* C7 witness: a NAT question with correct_answer "4.0" answered "four" has
\* been scored incorrect by a submit_exam that answered 200.
C7_Witness ==
    /\ response.op = "submit_exam"
    /\ response.code = 200
    /\ exam_sessions[1].questions = <<"n1">>
    /\ "n1" \in DOMAIN exam_sessions[1].answers
    /\ exam_sessions[1].answers["n1"] = PyStr("four")
    /\ response.body.incorrect = 1
    /\ response.body.correct = 0

\* C8: an answered MCQ question (with one option flagged correct) is scored
\* correct iff the stored answer is the id of that option; the id of another
\* option, an id that is no option's, or a list is scored incorrect.
C8_McqCorrectOption ==
    Scored(MCQ, LAMBDA result, question, answer :
        \A c \in CorrectIds(question) :
            CorrectIds(question) = {c} =>
            /\ result.correct = (IF answer = PyStr(c) THEN 1 ELSE 0)
            /\ result.incorrect = (IF answer = PyStr(c) THEN 0 ELSE 1))

\* C8 witness: an MCQ question whose correct option is A, answered with the
\* list [A], has been scored incorrect.
C8_Witness ==
    \E k \in DOMAIN exam_results :
        LET session == exam_sessions[exam_results[k].exam_session_id]
        IN /\ session.questions = <<"m1">>
           /\ "m1" \in DOMAIN session.answers
           /\ session.answers["m1"] = PyList(<<"A">>)
           /\ exam_results[k].incorrect = 1

\* the session without question q: off the question list and the status map
Without(session, q) ==
    [session EXCEPT
        !.questions = SelectSeq(session.questions, LAMBDA x : x # q),
        !.question_status = [x \in DOMAIN session.question_status \ {q} |->
                                session.question_status[x]]]

\* a counter of a subject bucket, 0 when the result has no such bucket
Bucket(result, subject, counter) ==
    IF subject \in DOMAIN result.subject_wise_score
    THEN result.subject_wise_score[subject][counter]
    ELSE 0

\* C9: a session question without a stored answer adds nothing to the result
\* stored at submission: attempted, correct, incorrect, the score and each
\* subject bucket's attempted and correct are what they are for the session
\* without that question, its status is not one that attempted counts, and
\* correct + incorrect counts answered questions only.
C9_UnansweredAddsNothing ==
    [][\A i \in DOMAIN exam_sessions :
          Submits(i) =>
          LET session == exam_sessions[i]
              result == exam_results'[Len(exam_results')]
          IN /\ result.correct + result.incorrect = Cardinality(Judged(session))
             /\ \A q \in Range(session.questions) \ DOMAIN session.answers :
                   LET rest == compute_result(questions, Without(session, q),
                                              result.user_id, result.id,
                                              result.submitted_at)
                   IN /\ session.question_status[q] \notin {ANSWERED, MARKED_ANSWERED}
                      /\ result.attempted = rest.attempted
                      /\ result.correct = rest.correct
                      /\ result.incorrect = rest.incorrect
                      /\ result.score = rest.score
                      /\ \A subject \in DOMAIN result.subject_wise_score :
                            /\ Bucket(result, subject, "attempted")
                                   = Bucket(rest, subject, "attempted")
                            /\ Bucket(result, subject, "correct")
                                   = Bucket(rest, subject, "correct")
      ]_vars

\* C9 witness: a submitted session with one question answered wrongly and
\* the other visited but never answered; the result counts one attempt.
C9_Witness ==
    /\ Len(exam_results) = 1
    /\ exam_sessions[1].submitted
    /\ exam_sessions[1].current_question = 1
    /\ Cardinality(DOMAIN exam_sessions[1].answers) = 1
    /\ exam_sessions[1].questions[2] \notin DOMAIN exam_sessions[1].answers
    /\ exam_sessions[1].question_status[exam_sessions[1].questions[2]] = NOT_ANSWERED
    /\ exam_results[1].attempted = 1
    /\ exam_results[1].incorrect = 1
    /\ exam_results[1].score = 0

\* C10: every result's total_questions is the length of its session's
\* question list, also when a listed question was missing from the store at
\* scoring time, and its percentage is 100 * correct / total_questions (0 when
\* total_questions is 0), which lies between 0 and 100.
C10_Percentage ==
    \A k \in DOMAIN exam_results :
        LET result == exam_results[k]
            session == exam_sessions[result.exam_session_id]
        IN /\ result.total_questions = Len(session.questions)
           /\ result.percentage.den > 0
           /\ IF result.total_questions > 0
              THEN result.percentage.num * result.total_questions
                       = 100 * result.correct * result.percentage.den
              ELSE result.percentage.num = 0
           /\ 0 <= result.percentage.num
           /\ result.percentage.num <= 100 * result.percentage.den

\* C10 witness: a result of 50 percent for a two-question session one of
\* whose questions was missing from the store when it was scored.
C10_Witness ==
    \E k \in DOMAIN exam_results :
        /\ exam_results[k].total_questions = 2
        /\ exam_results[k].correct = 1
        /\ exam_results[k].percentage = [num |-> 50, den |-> 1]
        /\ Bucket(exam_results[k], "Math", "total") = 1

\* session_id names an unsubmitted session of the user
OpenFor(session_id, user) ==
    \E i \in DOMAIN exam_sessions :
        /\ exam_sessions[i].id = session_id
        /\ exam_sessions[i].user_id = user
        /\ ~exam_sessions[i].submitted

\* C11: get_exam_question and submit_answer on a session that does not exist,
\* is not the caller's or is already submitted answer 404 and change no
\* store; so no step changes the answers, the status map or current_question
\* of a submitted session.
C11_ClosedSessionNotFound ==
    [][/\ \A u \in Callers, sid \in SessionIdInputs :
             ~OpenFor(sid, u) =>
                /\ \A idx \in 0..1 :
                      get_exam_question(u, sid, idx) =>
                         /\ response' = HTTPException("get_exam_question", 404)
                         /\ UNCHANGED <<questions, exam_configs, exam_sessions,
                                        exam_results>>
                /\ \A q \in DOMAIN QuestionBank, a \in AnswerInputs,
                      st \in StatusInputs :
                      submit_answer(u, sid, q, a, st) =>
                         /\ response' = HTTPException("submit_answer", 404)
                         /\ UNCHANGED <<questions, exam_configs, exam_sessions,
                                        exam_results>>
       /\ \A i \in DOMAIN exam_sessions :
             exam_sessions[i].submitted =>
                /\ exam_sessions'[i].answers = exam_sessions[i].answers
                /\ exam_sessions'[i].question_status
                       = exam_sessions[i].question_status
                /\ exam_sessions'[i].current_question
                       = exam_sessions[i].current_question
      ]_vars

\* C11 witness: two sessions of two owners, both submitted, one of them
\* with an answer, and the last request, a submit_answer, was answered 404.
C11_Witness ==
    /\ Len(exam_sessions) = 2
    /\ exam_sessions[1].user_id # exam_sessions[2].user_id
    /\ \A i \in DOMAIN exam_sessions : exam_sessions[i].submitted
    /\ \E i \in DOMAIN exam_sessions : exam_sessions[i].answers # <<>>
    /\ response = HTTPException("submit_answer", 404)

\* the questions the visibility rule shows to a user
VisibleTo(user) ==
    IF UserRole[user] = ADMIN THEN DOMAIN questions
    ELSE {q \in DOMAIN questions :
             \/ questions[q].created_by = user
             \/ user \in questions[q].shared_with
             \/ questions[q].is_public}

\* C15: get_user_questions returns, once each, exactly the questions the
\* caller owns, is shared or that are public, and every question to an admin.
C15_VisibleQuestions ==
    response.op = "get_user_questions" =>
        LET listed == {response.body[i].question.id : i \in DOMAIN response.body}
        IN /\ listed = VisibleTo(response.args.user)
           /\ Cardinality(listed) = Len(response.body)
           /\ \A i \in DOMAIN response.body :
                 response.body[i].question = questions[response.body[i].question.id]

\* C15 witness: the list returned to the student u2 holds a question shared
\* with u2 and lacks a private, unshared question that u1 owns.
C15_Witness ==
    /\ response.op = "get_user_questions"
    /\ response.args.user = "u2"
    /\ \E i \in DOMAIN response.body : response.body[i].user_relation = "shared"
    /\ \E q \in DOMAIN questions :
          /\ questions[q].created_by = "u1"
          /\ ~questions[q].is_public
          /\ questions[q].shared_with = {}
          /\ \A i \in DOMAIN response.body : response.body[i].question.id # q

\* C16: every admin-only operation called by a user who is not an admin
\* answers 403 and leaves the questions and the exam configs as they were.
C16_AdminOnly ==
    [][\A u \in AdminCallers :
          UserRole[u] # ADMIN =>
             LET Refused(op) ==
                     /\ response' = HTTPException(op, 403)
                     /\ UNCHANGED <<questions, exam_configs>>
             IN /\ \A d \in QuestionCreateInputs :
                      create_question(u, d) => Refused("create_question")
                /\ \A skip \in {0, 1}, limit \in {1, 100}, subject \in {"", "Math"} :
                      get_questions(u, skip, limit, subject) => Refused("get_questions")
                /\ \A q \in {"q2", "q3"} :
                      delete_question(u, q) => Refused("delete_question")
                /\ \A f \in FileInputs :
                      /\ upload_csv_questions(u, f) => Refused("upload_csv_questions")
                      /\ preview_csv_questions(u, f) => Refused("preview_csv_questions")
                      /\ upload_pdf_questions(u, f) => Refused("upload_pdf_questions")
                /\ \A d \in ExamDataInputs :
                      create_exam_config(u, d) => Refused("create_exam_config")
                /\ get_exam_configs(u) => Refused("get_exam_configs")
      ]_vars

\* C16 witness: a bulk import was refused with 403 in a store that an admin
\* had already added a question and an exam config to.
C16_Witness ==
    /\ response = HTTPException("upload_csv_questions", 403)
    /\ DOMAIN questions # DOMAIN QuestionBank
    /\ DOMAIN exam_configs # DOMAIN ExamCatalog

\* the questions of the store whose subject an exam config lists
Pool(exam_config_id) ==
    {q \in DOMAIN questions :
        questions[q].subject \in exam_configs[exam_config_id].subjects}

\* C12: start_exam answers 404 for an unknown exam config id and, when the
\* caller has no unsubmitted session for the config, 400 when fewer than
\* total_questions questions have one of its subjects; neither inserts a
\* session or changes a store.
C12_StartFailures ==
    [][\A u \in StartCallers, e \in StartExamInputs :
          start_exam(u, e) =>
             /\ e \notin DOMAIN exam_configs =>
                   /\ response' = HTTPException("start_exam", 404)
                   /\ UNCHANGED <<questions, exam_configs, exam_sessions,
                                  exam_results>>
             /\ ( /\ e \in DOMAIN exam_configs
                  /\ Unsubmitted(exam_sessions, u, e) = {}
                  /\ Cardinality(Pool(e)) < exam_configs[e].total_questions ) =>
                   /\ response' = HTTPException("start_exam", 400)
                   /\ UNCHANGED <<questions, exam_configs, exam_sessions,
                                  exam_results>>
      ]_vars

\* C12 witness: start_exam was answered 400 when the only session on file
\* was submitted and a config asking for more questions than its subject has
\* was on file.
C12_Witness ==
    /\ response = HTTPException("start_exam", 400)
    /\ Len(exam_sessions) = 1
    /\ exam_sessions[1].submitted
    /\ \E e \in DOMAIN exam_configs :
          Cardinality(Pool(e)) < exam_configs[e].total_questions

\* C13: the question list of every session start_exam inserts holds pairwise
\* distinct ids, each of a question that is in the store at that moment with
\* a subject of the session's exam config.
C13_SessionQuestionsFromPool ==
    [][Len(exam_sessions') > Len(exam_sessions) =>
          LET session == exam_sessions'[Len(exam_sessions')]
          IN /\ Len(exam_sessions') = Len(exam_sessions) + 1
             /\ \A i, j \in DOMAIN session.questions :
                   session.questions[i] = session.questions[j] => i = j
             /\ Range(session.questions) \subseteq Pool(session.exam_config_id)
      ]_vars

\* C13 witness: a session of three questions, one of them created after
\* start-up, begun after a question of another subject had been deleted.
C13_Witness ==
    \E i \in DOMAIN exam_sessions :
        /\ Len(exam_sessions[i].questions) = 3
        /\ "n1" \in Range(exam_sessions[i].questions)
        /\ exam_sessions[i].start_time = now
        /\ "q3" \notin DOMAIN questions
        /\ response.op = "start_exam"

\* C14: get_exam_session, get_exam_question, submit_answer, submit_exam,
\* get_exam_result and get_detailed_exam_results called on a session by any
\* user but its owner, an admin included, answer 404 and leave the sessions
\* and the results as they were.
C14_OwnerOnly ==
    [][\A u \in OwnerCallers, sid \in OwnerSessionIds :
          (\E i \in DOMAIN exam_sessions :
              exam_sessions[i].id = sid /\ exam_sessions[i].user_id # u) =>
             LET NotFound(op) ==
                     /\ response' = HTTPException(op, 404)
                     /\ UNCHANGED <<exam_sessions, exam_results>>
             IN /\ get_exam_session(u, sid) => NotFound("get_exam_session")
                /\ \A idx \in 0..1 :
                      get_exam_question(u, sid, idx) => NotFound("get_exam_question")
                /\ \A q \in DOMAIN QuestionBank, a \in AnswerInputs,
                      st \in StatusInputs :
                      submit_answer(u, sid, q, a, st) => NotFound("submit_answer")
                /\ submit_exam(u, sid) => NotFound("submit_exam")
                /\ get_exam_result(u, sid) => NotFound("get_exam_result")
                /\ get_detailed_exam_results(u, sid)
                      => NotFound("get_detailed_exam_results")
      ]_vars

\* C14 witness: the session exists with an answer and a stored result, and
\* the last request, a get_exam_session, was answered 404: its caller was
\* not the owner.
C14_Witness ==
    /\ Len(exam_sessions) = 1
    /\ exam_sessions[1].answers # <<>>
    /\ exam_sessions[1].submitted
    /\ Len(exam_results) = 1
    /\ response = HTTPException("get_exam_session", 404)

\* C18: get_exam_question never downgrades a status: it leaves ANSWERED,
\* MARKED and MARKED_ANSWERED as they are, and the only status change it
\* makes is NOT_VISITED to NOT_ANSWERED.
C18_NoStatusDowngrade ==
    [][response'.op = "get_exam_question" =>
          \A i \in DOMAIN exam_sessions :
             \A q \in DOMAIN exam_sessions[i].question_status :
                LET before == exam_sessions[i].question_status[q]
                    after == exam_sessions'[i].question_status[q]
                IN /\ before \in {ANSWERED, MARKED, MARKED_ANSWERED} => after = before
                   /\ after # before =>
                         before = NOT_VISITED /\ after = NOT_ANSWERED
      ]_vars

\* the session with question q struck from the list, the answers and the
\* status map
Forget(session, q) ==
    [Without(session, q) EXCEPT
        !.answers = [x \in DOMAIN session.answers \ {q} |-> session.answers[x]]]

\* C19: a session question that is no longer in the question store when the
\* session is scored is skipped entirely: whatever answer and status were
\* stored for it, attempted, correct, incorrect, the score and the subject
\* buckets of the result are those of the session without that question.
C19_MissingQuestionSkipped ==
    [][\A i \in DOMAIN exam_sessions :
          Submits(i) =>
          LET session == exam_sessions[i]
              result == exam_results'[Len(exam_results')]
          IN \A q \in Range(session.questions) \ DOMAIN questions :
                LET rest == compute_result(questions, Forget(session, q),
                                           result.user_id, result.id,
                                           result.submitted_at)
                IN /\ result.attempted = rest.attempted
                   /\ result.correct = rest.correct
                   /\ result.incorrect = rest.incorrect
                   /\ result.score = rest.score
                   /\ result.subject_wise_score = rest.subject_wise_score
      ]_vars

\* C17: in every interleaving of the storage calls of concurrent requests,
\* a stored session stays stored and its submitted flag, once true, is never
\* set back to false.
C17_SubmittedMonotonic ==
    [][\A i \in DOMAIN exam_sessions :
          /\ i \in DOMAIN exam_sessions'
          /\ exam_sessions[i].submitted => exam_sessions'[i].submitted
      ]_vars

\* C17 witness: a submit_answer that had read the session before it was
\* submitted wrote its answer after the session was marked submitted, and
\* the flag is still true.
C17_Witness ==
    /\ Len(exam_sessions) >= 1
    /\ exam_sessions[1].submitted
    /\ exam_sessions[1].answers # <<>>
    /\ response.op = "submit_answer"
    /\ response.code = 200
    /\ \E k \in DOMAIN inflight : At(k, "submit_exam", "insert_result")

\* C20: a submit_exam request that has passed the submitted check carries
\* on whatever other requests have stored since: its update writes
\* submitted and its own end_time even into a session that is already
\* submitted, and its insert adds a Result document even when one is on file
\* for the session. Two interleaved requests for one unsubmitted session so
\* reach a state with two Result documents for that session id.
C20_DoubleSubmitDuplicates ==
    [][\A k \in DOMAIN inflight :
          /\ submit_exam_update_session(k) =>
                \A i \in DOMAIN exam_sessions :
                   exam_sessions[i].id = inflight[k].args.session_id =>
                      /\ exam_sessions'[i].submitted
                      /\ exam_sessions'[i].end_time
                            = inflight[k].held.result.submitted_at
          /\ submit_exam_insert_result(k) =>
                /\ Len(exam_results') = Len(exam_results) + 1
                /\ ResultsOf(exam_results', inflight[k].args.session_id) =
                      ResultsOf(exam_results, inflight[k].args.session_id)
                         \cup {Len(exam_results')}
      ]_vars

\* C20 witness: two Result documents for the session id of one session.
C20_Witness ==
    \E i \in DOMAIN exam_sessions :
        /\ exam_sessions[i].submitted
        /\ Cardinality(ResultsOf(exam_results, exam_sessions[i].id)) = 2

\* C21: a start_exam request that has passed the existing-session check
\* inserts its session whatever other requests have stored since: the new
\* document is an unsubmitted session of the caller for the exam, added to
\* the unsubmitted sessions already stored for the pair. Two interleaved
\* requests of one user for one exam so reach a state with two unsubmitted
\* sessions of that pair.
C21_ConcurrentStartsDuplicate ==
    [][\A k \in DOMAIN inflight :
          start_exam_insert_session(k) =>
             LET a == inflight[k].args
                 new == Len(exam_sessions) + 1
             IN /\ DOMAIN exam_sessions' = 1..new
                /\ \A i \in DOMAIN exam_sessions :
                      exam_sessions'[i] = exam_sessions[i]
                /\ exam_sessions'[new].user_id = a.user
                /\ exam_sessions'[new].exam_config_id = a.exam_config_id
                /\ ~exam_sessions'[new].submitted
                /\ Unsubmitted(exam_sessions', a.user, a.exam_config_id) =
                      Unsubmitted(exam_sessions, a.user, a.exam_config_id)
                         \cup {new}
      ]_vars

\* C21 witness: two unsubmitted sessions of one user for one exam, both
\* stored by requests that found none.
C21_Witness ==
    /\ Cardinality(Unsubmitted(exam_sessions, StepsUser, StepsExam)) = 2
    /\ response.op = "start_exam"
    /\ response.code = 200
    /\ response.body = exam_sessions[2]

\* the dict new is the dict old with key k set to v and nothing else changed
Upserted(old, new, k, v) ==
    /\ DOMAIN new = DOMAIN old \cup {k}
    /\ new[k] = v
    /\ \A x \in DOMAIN old \ {k} : new[x] = old[x]

\* C22: submit_answer on an unsubmitted session of the caller succeeds for
\* any question id, in the session's list or not: it sets answers[question_id]
\* to the answer and question_status[question_id] to the status the caller
\* gave, and leaves every other entry of the two maps, the question list,
\* current_question, submitted, start_time, end_time and every other stored
\* document as they were.
C22_AnswerUpsert ==
    [][\A q \in DOMAIN QuestionBank, a \in OneAnswerInputs, st \in OneStatusInputs :
          OpenFor(1, "u1") =>
             (submit_answer("u1", 1, q, a, st) =>
                LET old == exam_sessions[1]
                    new == exam_sessions'[1]
                IN /\ response'.op = "submit_answer"
                   /\ response'.code = 200
                   /\ Len(exam_sessions') = Len(exam_sessions)
                   /\ Upserted(old.answers, new.answers, q, a)
                   /\ Upserted(old.question_status, new.question_status, q, st)
                   /\ new.questions = old.questions
                   /\ new.current_question = old.current_question
                   /\ new.submitted = old.submitted
                   /\ new.start_time = old.start_time
                   /\ new.end_time = old.end_time
                   /\ new.id = old.id
                   /\ new.user_id = old.user_id
                   /\ new.exam_config_id = old.exam_config_id
                   /\ UNCHANGED <<questions, exam_configs, exam_results>>)
      ]_vars

\* C22 witness: an answer stored under a question id that is not in the
\* session's list, with the status the caller gave, next to the answer of a
\* listed question.
C22_Witness ==
    /\ Len(exam_sessions) = 1
    /\ ~exam_sessions[1].submitted
    /\ "q3" \notin Range(exam_sessions[1].questions)
    /\ DOMAIN exam_sessions[1].answers = {"q1", "q3"}
    /\ exam_sessions[1].answers["q3"] = PyStr("A")
    /\ exam_sessions[1].question_status["q3"] = MARKED
    /\ exam_sessions[1].question_status["q1"] = ANSWERED
    /\ response.op = "submit_answer"
    /\ response.code = 200
    /\ response.args.question_id = "q3"

\* C23: every session document a step adds to the store has submitted false,
\* no end_time, an empty answers map, current_question 0 and a status map
\* whose keys are exactly the session's question ids, NOT_ANSWERED for the
\* first question of the list and NOT_VISITED for every other.
C23_NewSessionInitial ==
    [][\A i \in DOMAIN exam_sessions' \ DOMAIN exam_sessions :
          LET s == exam_sessions'[i]
          IN /\ ~s.submitted
             /\ s.end_time = NoTime
             /\ s.answers = <<>>
             /\ s.current_question = 0
             /\ Len(s.questions) >= 1
             /\ DOMAIN s.question_status = Range(s.questions)
             /\ s.question_status[s.questions[1]] = NOT_ANSWERED
             /\ \A q \in Range(s.questions) \ {s.questions[1]} :
                   s.question_status[q] = NOT_VISITED
      ]_vars

\* C23 witness: start_exam has just stored and returned a session of two
\* questions, the first opened and the second not visited.
C23_Witness ==
    /\ exam_sessions # <<>>
    /\ LET s == exam_sessions[Len(exam_sessions)]
       IN /\ response = Ok("start_exam",
                           [user |-> s.user_id, exam_config_id |-> s.exam_config_id],
                           s)
          /\ Len(s.questions) = 2
          /\ s.question_status[s.questions[1]] = NOT_ANSWERED
          /\ s.question_status[s.questions[2]] = NOT_VISITED

\* the session questions with a stored answer
Answered(session) == Range(session.questions) \cap DOMAIN session.answers

\* C24: for the result stored when a session whose questions are all in the
\* question store is submitted, after any get_exam_question and submit_answer
\* calls, attempted = correct + incorrect, and attempted is the number of
\* session questions with a stored answer, which is the sum of the subject
\* buckets' attempted counts.
C24_AttemptedConsistent ==
    [][\A i \in DOMAIN exam_sessions :
          (Submits(i) /\ Range(exam_sessions[i].questions) \subseteq DOMAIN questions) =>
          LET session == exam_sessions[i]
              result == exam_results'[Len(exam_results')]
              subjects == DOMAIN result.subject_wise_score
          IN /\ result.attempted = result.correct + result.incorrect
             /\ result.attempted = Cardinality(Answered(session))
             /\ result.attempted =
                   SumOver(subjects,
                           [s \in subjects |-> Bucket(result, s, "attempted")])
      ]_vars

\* C25: the current_question of every stored session is a position of its
\* question list, 0 <= current_question < number of questions, and
\* get_exam_question with an index outside that range fails and leaves
\* current_question as it was.
C25_CurrentQuestionValid ==
    [][/\ \A i \in DOMAIN exam_sessions' :
             /\ 0 <= exam_sessions'[i].current_question
             /\ exam_sessions'[i].current_question < Len(exam_sessions'[i].questions)
       /\ \A idx \in OneIndexInputs :
             (/\ OpenFor(1, "u1")
              /\ (idx < 0 \/ idx >= Len(exam_sessions[1].questions))) =>
                (get_exam_question("u1", 1, idx) =>
                    /\ response'.op = "get_exam_question"
                    /\ response'.code # 200
                    /\ exam_sessions'[1].current_question
                          = exam_sessions[1].current_question)
      ]_vars

\* C26: in every interleaving of the storage calls of a submit_answer and a
\* submit_exam on one session, the stored result is the score of exactly the
\* answers the session holds once it is marked submitted: no step changes
\* the answers of a session whose submitted flag is true, and the result a
\* submit_exam request carries when it marks the session submitted is the
\* score of the session as stored at that moment.
C26_ResultScoresFinalAnswers ==
    [][/\ \A i \in DOMAIN exam_sessions :
             exam_sessions[i].submitted =>
                exam_sessions'[i].answers = exam_sessions[i].answers
       /\ \A k \in DOMAIN inflight :
             submit_exam_update_session(k) =>
                \A i \in DOMAIN exam_sessions :
                   exam_sessions[i].id = inflight[k].args.session_id =>
                      LET result == inflight[k].held.result
                          scored == compute_result(questions, exam_sessions[i],
                                                   result.user_id, result.id,
                                                   result.submitted_at)
                      IN /\ exam_sessions'[i].answers
                               = inflight[k].held.session.answers
                         /\ result.attempted = scored.attempted
                         /\ result.correct = scored.correct
                         /\ result.incorrect = scored.incorrect
                         /\ result.score = scored.score
                         /\ result.subject_wise_score = scored.subject_wise_score
      ]_vars

\* C27: for a submitted session whose questions and answers are as they were
\* at submission, each is_correct flag that get_detailed_exam_results returns
\* is the verdict the scoring gave that question (true exactly when the
\* question has a stored answer that is_correct judges correct), for every
\* question type and every stored answer value; so the number of questions
\* flagged correct is overall_result.correct.
C27_DetailedAgrees ==
    (response.op = "get_detailed_exam_results" /\ response.code = 200) =>
    LET session == exam_sessions[response.args.session_id]
        entries == response.body.questions
    IN /\ \A k \in DOMAIN entries :
             LET q == entries[k].question_id
             IN entries[k].is_correct =
                   (/\ q \in DOMAIN session.answers
                    /\ is_correct(questions[q], session.answers[q]))
       /\ Cardinality({k \in DOMAIN entries : entries[k].is_correct})
             = response.body.overall_result.correct

====
